---- MODULE Spec2Model ----
(***************************************************************************)
(* A model of the baker control loop of TezBakerJS (src/src/Baker.ts,      *)
(* class Baker, lines 1-807): the periodic run() tick, the injector drain, *)
(* the head fetch, the nonce reveal pass, the stand-down guard, the        *)
(* endorser and baker dispatch, the asynchronous bake pipeline and the     *)
(* completions of the RPCs they leave in flight.                           *)
(*                                                                         *)
(* JavaScript runs one callback at a time, so every action below is the    *)
(* code that runs between two suspension points (await / then).  The node  *)
(* is the environment: its answers are drawn with \E from small sets.      *)
(***************************************************************************)
EXTENDS Integers, Sequences, FiniteSets, Bags, TLC

\* ------------------------------------------------------------ constants
\* CONSTANTS.ZERONET, the preset of the constructor's default net
cycleLength == 128
commitment == 32
\* CONSTANTS.MAINNET, CONSTANTS.TESTNET and CONSTANTS.ZERONET, the fields the
\* cycle geometry reads
MAINNET == [cycleLength |-> 4096, commitment |-> 32]
TESTNET == [cycleLength |-> 2048, commitment |-> 32]
ZERONET == [cycleLength |-> cycleLength, commitment |-> commitment]
\* mempoolCheck forces acceptance once this many rejections were counted
mempoolCheckLimit == 10

\* ------------------------------------------------------------ bounds
\* lowest head level the node reports, and how many levels above it
LoLevel == 126
MaxStep == 3
\* clock values 0..MaxTime
MaxTime == 1
\* getHead() answers in one run
MaxFetches == 3
MaxReturns == 4
\* attempts of one stamp search: one more than a batch
MaxAttempts == 4001
\* priorities 0..MaxPriority
MaxPriority == 1
\* nonce records in a loaded store
MaxStoreLen == 2
\* operations in the applied list of a mempool answer
MaxPoolLen == 2
\* highest cycle number given to the cycle geometry
MaxCycle == 3
\* contents of an operation given to operationPass
MaxContents == 2
\* highest number of endorsements preapply asks for
MaxRequired == 1
\* rejections of one bake by the mempool gate
MaxRejections == 11
\* entries in the error payload of a failed injection
MaxErrors == 2
\* calls of start() in one run
MaxStarts == 2
\* highest nonce level given to the reveal window
MaxNonceLevel == 8193

Hashes == {"a", "b"}
Levels == LoLevel .. (LoLevel + MaxStep)
Heads == [hash : Hashes, level : Levels]
Times == 0 .. MaxTime
OpHashes == {"opX"}
\* operation hashes a mempool answer may show
PoolHashes == {"opX", "opY"}

\* heads and stored nonce levels of the reveal-window specification
RevealLevels == {cycleLength, cycleLength + 1, 2 * cycleLength, 2 * cycleLength + 1}
RevealHeads == [hash : {"a"}, level : RevealLevels]
NonceLevels == {cycleLength, cycleLength + 1}

\* this.head = null
NoHead == [hash |-> "null", level |-> 0]

VARIABLES
  head,                 \* this.head
  startLevel,           \* this.startLevel
  lockBaker,            \* this.lockBaker
  fetching,             \* the number of getHead() requests in flight
  injectedBlocks,       \* this.injectedBlocks (levels)
  endorsedBlocks,       \* this.endorsedBlocks (levels)
  bakedBlocks,          \* this.bakedBlocks (levels)
  pendingBlocks,        \* this.pendingBlocks, a sequence of candidates
  badOps,               \* this.badOps
  noncesToReveal,       \* this.noncesToReveal, a sequence of nonce records
  store,                \* this.store.bknonces
  fetches,              \* history: number of getHead() answers so far
  requiredEndorsements, \* this.requiredEndorsements
  mempoolCheckCount,    \* this.mempoolCheckCount
  now,                  \* the clock read by getDateNow()
  endorseQ,             \* endorsing_rights queries in flight (bag of heads)
  bakeQ,                \* baking_rights queries in flight (bag of heads)
  baking,               \* running bake() calls
  injecting,            \* /injection/block requests in flight
  revealing,            \* reveal() pipelines in flight (nonce records)
  endorseLog,           \* history: every endorse(h) call, with this.head then (bag)
  bakeLog,              \* history: every bake(h, ..) call of run, with this.head then (bag)
  injectLog,            \* history: every /injection/block request, with head.level then (bag)
  enqueueLog,           \* history: every candidate appended, with head.level then
  discardLog,           \* history: every candidate the injector dropped unsent
  revealLog,            \* history: every reveal(head, nonce) call, with head.level (bag)
  firstLevel,           \* history: level of the first head observed (0: none yet)
  ev,                   \* history: the kind of the last step, and whether it
                        \* called the store's setter
  chk,                  \* history: the mempoolCheck call of the last step, if any
  err,                  \* history: the error payload the last step was given
  step,                 \* history: the requests the last step sent, in order,
                        \* the baking-rights answer it was given, and the
                        \* nonce whose reveal it ended
  arg,                  \* the argument of a utility function called on its own
  res,                  \* and its result
  pow,                  \* the activation of powLoop called on its own
  bakeIntervalId,       \* this.bakeIntervalId: a timer id, or 0 for false
  timers,               \* the ids of the interval timers that are active
  issued                \* the number of timers setInterval has made

vars == << head, startLevel, lockBaker, fetching, injectedBlocks, endorsedBlocks,
           bakedBlocks, pendingBlocks, badOps, noncesToReveal, store, fetches,
           requiredEndorsements, mempoolCheckCount, now, endorseQ, bakeQ, baking,
           injecting, revealing, endorseLog, bakeLog, injectLog, enqueueLog,
           discardLog, revealLog, firstLevel, ev, chk, err, step, arg, res,
           pow, bakeIntervalId, timers, issued >>

\* the fields of the agent, the requests in flight, and the history
fields == << head, startLevel, lockBaker, injectedBlocks, endorsedBlocks,
             bakedBlocks, pendingBlocks, badOps, noncesToReveal, store,
             requiredEndorsements, mempoolCheckCount >>
flight == << fetching, endorseQ, bakeQ, baking, injecting, revealing >>
logs == << endorseLog, bakeLog, injectLog, enqueueLog, discardLog, revealLog,
           firstLevel, fetches >>
util == << arg, res, pow >>
timer == << bakeIntervalId, timers, issued >>

\* ------------------------------------------------------------ helpers
Bag1(x) == SetToBag({x})
SeqToSet(s) == {s[i] : i \in DOMAIN s}

\* ------------------------------------------------------------ cycle geometry
\* getConstants, line 130-139: the preset of a network name
getConstants(net) ==
  IF net = "mainnet" THEN MAINNET
  ELSE IF net = "zeronet" THEN ZERONET
  ELSE TESTNET

\* levelToCycle, cycleToLevelStart and cycleToLevelEnd, line 189-195, for an
\* agent whose this.CONSTANTS.cycleLength is K
levelToCycleNoShift(K, l) == l \div K
levelToCycleOn(K, l) == (l - 1) \div K
cycleToLevelStartFromZero(K, c) == c * K
cycleToLevelStartOn(K, c) == c * K + 1
cycleToLevelEndOn(K, c) == cycleToLevelStartOn(K, c) + K - 1

\* the same for the agent of the model, built for the default net
levelToCycle(l) == levelToCycleOn(cycleLength, l)
cycleToLevelStart(c) == cycleToLevelStartOn(cycleLength, c)
cycleToLevelEnd(c) == cycleToLevelEndOn(cycleLength, c)

startReveal(n) == cycleToLevelStart(levelToCycle(n.level) + 1)
endReveal(n) == cycleToLevelEnd(levelToCycle(n.level) + 1)
\* ------------------------------------------------------------ nonces
\* A nonce record is [id, level, revealed]; id stands for the identity of the
\* JavaScript object (a record made by an injection has id = its level, the
\* i-th record of a loaded store has a negative id).

DueIgnoringStart(n, H) == n.revealed = FALSE
\* revealNonces, line 170-173: the condition under which reveal() is called
DueForReveal(n, H) == H >= startReveal(n) /\ n.revealed = FALSE

\* revealNonces, line 165: the condition under which "Abandon nonce" is logged
WindowClosed(n, H) == H > endReveal(n)

KeepAllNonces(list, H) == list
\* revealNonces, line 157-182: the list newNonces built by the loop
newNonces(list, H) == SelectSeq(list, LAMBDA n : ~DueForReveal(n, H))

skipReveals(list, H) == <<>>
\* the nonces for which the loop calls reveal(this.head, nonce), in order
dueNonces(list, H) == SelectSeq(list, LAMBDA n : DueForReveal(n, H))

\* reveal(), line 423 and 431: nonce.revealed = true on the object, seen
\* through every list that still holds the object
MarkRevealed(list, n) ==
  [i \in DOMAIN list |->
     IF list[i].id = n.id THEN [list[i] EXCEPT !.revealed = TRUE] ELSE list[i]]

\* ------------------------------------------------------------ commitment
\* bake, line 505: this.network is the base class's field; the constructor
\* passes no network to super(), so it is not 'zero'
network == "main"
commitmentOffset == IF network = "zero" THEN 1 ELSE 0
IsCommitmentLevel(l) == l % commitment = commitmentOffset

\* ------------------------------------------------------------ injector
\* A candidate is [level, timestamp, seed]; seed is TRUE when the candidate
\* carries a commitment seed (the bytes themselves are opaque here).

InjectStale(c) == FALSE
\* run, line 203
StaleBlock(c) == c.level <= head.level

\* run, line 204
AlreadyInjected(c, injected) == c.level \in injected

AlwaysDue(c) == TRUE
NeverDue(c) == FALSE
\* run, line 206-209
DueBlock(c) == now >= c.timestamp

submitAndKeep(acc, c) ==
  [acc EXCEPT !.injected = @ \cup {c.level}, !.sent = Append(@, c),
              !.nb = Append(@, c)]
\* run, line 210-214: the level is marked and the injection request is sent;
\* the candidate is not copied to nb
submitBlock(acc, c) ==
  [acc EXCEPT !.injected = @ \cup {c.level}, !.sent = Append(@, c)]

InjectorStepNoMark(acc, c) ==
  IF StaleBlock(c) THEN [acc EXCEPT !.dropped = @ \cup {c}]
  ELSE IF DueBlock(c)
    THEN [acc EXCEPT !.sent = Append(@, c), !.nb = Append(@, c)]
    ELSE [acc EXCEPT !.nb = Append(@, c)]
\* run, line 202-255: one iteration of the injector loop
InjectorStep(acc, c) ==
  IF StaleBlock(c) THEN [acc EXCEPT !.dropped = @ \cup {c}]
  ELSE IF AlreadyInjected(c, acc.injected) THEN [acc EXCEPT !.dropped = @ \cup {c}]
  ELSE IF DueBlock(c) THEN submitBlock(acc, c)
  ELSE [acc EXCEPT !.nb = Append(@, c)]

RECURSIVE InjectorLoop(_, _)
\* run, line 200-258: the loop over this.pendingBlocks, from index i
InjectorLoop(i, acc) ==
  IF i > Len(pendingBlocks) THEN acc
  ELSE InjectorLoop(i + 1, InjectorStep(acc, pendingBlocks[i]))

RECURSIVE SeqToBag(_)
SeqToBag(s) == IF s = <<>> THEN EmptyBag ELSE Bag1(Head(s)) (+) SeqToBag(Tail(s))

\* ------------------------------------------------------------ guards of run
NeverLocked == FALSE
\* run, line 260
Locked == lockBaker

StandDownSameLevel(h) == h.level
\* run, line 275
StandDownLevel(h) == h.level + 1

EndorserNeverChanged(h) == FALSE
\* run, line 297
EndorserHeadChanged(h) == h.level # head.level

NeverEndorsed(l) == FALSE
\* run, line 303
AlreadyEndorsed(l) == l \in endorsedBlocks

BakerNeverChanged(h) == FALSE
\* run, line 337
BakerHeadChanged(h) == h.level # head.level

NeverBaked(l) == FALSE
\* run, line 342
AlreadyBaked(l) == l \in bakedBlocks

AnyRightIsDue(rights) == TRUE
\* run, line 348-350
RightIsDue(rights) == now >= rights.estimated_time

forgetNothingToBake(baked, l) == baked
\* run, line 344: an empty rights list marks the level
markNothingToBake(baked, l) == baked \cup {l}

forgetBaking(baked, l) == baked
\* run, line 353: the level is marked before bake is called
markBaking(baked, l) == baked \cup {l}

\* ------------------------------------------------------------ operations
\* An operation of the mempool's applied list is [hash, branch, contents];
\* contents is the sequence of the kinds of its contents.
Kinds == {"endorsement", "proposals", "ballot", "seed_nonce_revelation",
          "double_endorsement_evidence", "double_baking_evidence",
          "activate_account", "transaction"}

PassOfBallotIsTwo(applied) ==
  IF Len(applied.contents) = 1 /\ applied.contents[1] = "endorsement" THEN 0
  ELSE IF Len(applied.contents) = 1 /\ applied.contents[1] = "proposals" THEN 1
  ELSE IF Len(applied.contents) = 1 /\ applied.contents[1] \in Kinds \ {"transaction"}
    THEN 2
  ELSE 3
\* operationPass, line 761-780
operationPass(applied) ==
  IF Len(applied.contents) = 1
    THEN CASE applied.contents[1] = "endorsement" -> 0
           [] applied.contents[1] \in {"proposals", "ballot"} -> 1
           [] applied.contents[1] \in {"seed_nonce_revelation",
                                       "double_endorsement_evidence",
                                       "double_baking_evidence",
                                       "activate_account"} -> 2
           [] OTHER -> 3
    ELSE 3

\* mempoolCheck, line 479-486: the operations of the applied list that have
\* an endorsement among their contents
mempoolEndorsements(mempool) ==
  Cardinality({i \in DOMAIN mempool :
                 \E j \in DOMAIN mempool[i].contents :
                   mempool[i].contents[j] = "endorsement"})

\* mempoolCheck, line 472-496, given the applied list of the mempool
mempoolCheck(mempool) ==
  IF mempoolCheckCount >= mempoolCheckLimit
    THEN [ok |-> TRUE, forced |-> TRUE, count |-> 0,
          required |-> requiredEndorsements]
  ELSE IF mempoolEndorsements(mempool) < requiredEndorsements
    THEN [ok |-> FALSE, forced |-> FALSE, count |-> mempoolCheckCount + 1,
          required |-> requiredEndorsements]
    ELSE [ok |-> TRUE, forced |-> FALSE, count |-> mempoolCheckCount,
          required |-> 0]

\* bake, line 499: let operations = [[], [], [], []]
NoOperations == << <<>>, <<>>, <<>>, <<>> >>

SelectIgnoringBadOps(acc, o, h) ==
  IF o.hash \in acc.addedOps THEN acc
  ELSE IF o.branch # h.hash THEN acc
  ELSE [addedOps |-> acc.addedOps \cup {o.hash},
        operations |-> [acc.operations EXCEPT ![operationPass(o) + 1] =
                          Append(@, [branch |-> o.branch, contents |-> o.contents])]]
\* bake, line 535-550: one iteration of the selection loop of bake(h, ..)
SelectStep(acc, o, h) ==
  IF o.hash \in acc.addedOps THEN acc
  ELSE IF o.branch # h.hash THEN acc
  ELSE IF o.hash \in badOps THEN acc
  ELSE [addedOps |-> acc.addedOps \cup {o.hash},
        operations |-> [acc.operations EXCEPT ![operationPass(o) + 1] =
                          Append(@, [branch |-> o.branch, contents |-> o.contents])]]

RECURSIVE SelectLoop(_, _, _, _)
\* bake, line 530-551: the loop over mempool.applied, from index i
SelectLoop(i, mempool, h, acc) ==
  IF i > Len(mempool) THEN acc
  ELSE SelectLoop(i + 1, mempool, h, SelectStep(acc, mempool[i], h))

\* the operations matrix bake(h, ..) builds from the applied list
selectOperations(mempool, h) ==
  SelectLoop(1, mempool, h, [addedOps |-> {}, operations |-> NoOperations]).operations

\* ------------------------------------------------------------ observations
\* no mempoolCheck call in the last step
NoCheck == [called |-> FALSE, head |-> NoHead, mempool |-> <<>>, bad |-> {},
            required |-> 0, count |-> 0, rejections |-> 0, first |-> FALSE,
            ok |-> FALSE, forced |-> FALSE, operations |-> NoOperations]
\* no error payload in the last step
NoError == <<>>
\* no rights answer in the last step, and a step that sent nothing
NoRights == [kind |-> "unasked"]
\* no reveal ended in the last step
NoNonce == [id |-> 0, level |-> 0, revealed |-> FALSE, outcome |-> "none"]
NoStep == [sent |-> <<>>, rights |-> NoRights, done |-> NoNonce]
Sent(reqs) == [sent |-> reqs, rights |-> NoRights, done |-> NoNonce]
\* n requests of one kind
Repeat(n, req) == [i \in 1 .. n |-> req]
\* the request, if cond
Maybe(cond, req) == IF cond THEN <<req>> ELSE <<>>
\* no utility call
NoArg == [fn |-> "none", contents |-> <<>>, net |-> "none", c |-> 0, level |-> 0]
NoRes == [done |-> FALSE, pass |-> 0, start |-> 0, end |-> 0, cycleOfStart |-> 0,
          cycleOfEnd |-> 0, nextStart |-> 0]

\* ------------------------------------------------------------ initial state
\* the fields set by the constructor, line 101-124, but for the nonce list
InitFields ==
  /\ head = NoHead
  /\ startLevel = 0
  /\ lockBaker = FALSE
  /\ injectedBlocks = {}
  /\ endorsedBlocks = {}
  /\ bakedBlocks = {}
  /\ pendingBlocks = <<>>
  /\ badOps = {}
  /\ requiredEndorsements = 0
  /\ mempoolCheckCount = 0

\* nothing is in flight and nothing has happened
InitIdle ==
  /\ fetching = 0
  /\ fetches = 0
  /\ now = 0
  /\ endorseQ = EmptyBag
  /\ bakeQ = EmptyBag
  /\ baking = {}
  /\ injecting = EmptyBag
  /\ revealing = {}
  /\ endorseLog = EmptyBag
  /\ bakeLog = EmptyBag
  /\ injectLog = EmptyBag
  /\ enqueueLog = {}
  /\ discardLog = {}
  /\ revealLog = EmptyBag
  /\ firstLevel = 0
  /\ ev = [act |-> "init", wrote |-> FALSE]
  /\ chk = NoCheck
  /\ err = NoError
  /\ step = NoStep

keepInterval(active, id) == active
\* clearInterval(id)
clearInterval(active, id) == active \ {id}

\* start, line 787-797, given the timers that are active and the number made
\* so far: the timer of bakeIntervalId, if any, is cleared, and a new one is
\* made, whose id is kept
startTimer(id, active, made) ==
  [bakeIntervalId |-> made + 1,
   timers |-> (IF id # 0 THEN clearInterval(active, id) ELSE active) \cup {made + 1},
   issued |-> made + 1]

\* stop, line 799-806
stopTimer(id, active, made) ==
  [bakeIntervalId |-> 0,
   timers |-> IF id # 0 THEN clearInterval(active, id) ELSE active,
   issued |-> made]

\* the constructor, line 110: this.bakeIntervalId = false
NotStarted ==
  /\ bakeIntervalId = 0
  /\ timers = {}
  /\ issued = 0

\* the first call of start()
Started ==
  /\ bakeIntervalId = startTimer(0, {}, 0).bakeIntervalId
  /\ timers = startTimer(0, {}, 0).timers
  /\ issued = startTimer(0, {}, 0).issued

\* nothing is in flight, nothing has happened and start() was called
InitRest == InitIdle /\ Started

\* ------------------------------------------------------------ stamp search
\* A hex string is the sequence of its digits, 0..15; a buffer the sequence
\* of its bytes, 0..255.
Zeros(n) == [i \in 1 .. n |-> 0]

\* utility.hex2buf: one byte for every two digits
hex2buf(hex) == [i \in 1 .. (Len(hex) \div 2) |-> 16 * hex[2 * i - 1] + hex[2 * i]]

\* utility.buf2hex: two digits for every byte
buf2hex(buf) ==
  [i \in 1 .. (2 * Len(buf)) |->
     IF i % 2 = 1 THEN buf[(i + 1) \div 2] \div 16 ELSE buf[i \div 2] % 16]

\* String.padEnd and padStart with '0'
padEnd(str, n) == IF Len(str) >= n THEN str ELSE str \o Zeros(n - Len(str))
padStart(str, n) == IF Len(str) >= n THEN str ELSE Zeros(n - Len(str)) \o str

\* Number.toString(16)
RECURSIVE toString16(_)
toString16(n) == IF n < 16 THEN <<n>> ELSE Append(toString16(n \div 16), n % 16)

\* CONSTANTS.powHeader, line 34
powHeader == <<0, 0, 0, 0, 0, 0, 0, 3>>

\* CONSTANTS.threshold, line 31: 70368744177663 = 2^46 - 1, as four digits of
\* base 65536, most significant first
threshold == <<0, 16383, 65535, 65535>>

\* createProtocolData, line 725-734
createProtocolData(priority, header, nonce, seed) ==
  padStart(toString16(priority), 4) \o padEnd(header, 8) \o padEnd(nonce, 8)
    \o (IF seed # <<>> THEN <<15, 15>> \o padEnd(seed, 64) ELSE <<0, 0>>)

\* powLoop, line 689: the digits appended for the signature
placeholderLength == 128
\* powLoop, line 692-697
priorityLength == 2
powHeaderLength == 4
powLength == 4
syncBatchSize == 2000

\* stampcheck, line 748-754: the first 8 bytes read as one big-endian number,
\* kept as four digits of base 65536.  Every value up to the threshold is
\* below 2^53, so the floating-point sum of the code decides the comparison
\* of line 745 as the exact one does
stampcheck(d) ==
  <<256 * d[1] + d[2], 256 * d[3] + d[4], 256 * d[5] + d[6], 256 * d[7] + d[8]>>

\* a <= b for numbers of four digits
RECURSIVE AtMost(_, _)
AtMost(a, b) ==
  IF a = <<>> THEN TRUE
  ELSE IF Head(a) # Head(b) THEN Head(a) < Head(b)
  ELSE AtMost(Tail(a), Tail(b))

AnyHashPasses(d) == TRUE
\* checkHash, line 736-746, given the digest d of the buffer
checkHash(d) == AtMost(stampcheck(d), threshold)

incrementWithoutCarry(buf, off, i) ==
  [buf EXCEPT ![off + i + 1] = (@ + 1) % 256]
\* powLoopHelper, line 703-710: the counter of powLength bytes at offset off
\* (counted from 0) is incremented, from byte i down
RECURSIVE increment(_, _, _)
increment(buf, off, i) ==
  IF i < 0 THEN buf
  ELSE IF buf[off + i + 1] = 255
    THEN increment([buf EXCEPT ![off + i + 1] = 0], off, i - 1)
    ELSE [buf EXCEPT ![off + i + 1] = @ + 1]

\* powLoop, line 694
protocolOffset(forged) == (Len(forged) \div 2) + priorityLength + powHeaderLength

\* powLoopHelper(att, syncAtt), line 700-712, up to 'await this.checkHash'
powLoopHelper(p, att, syncAtt) ==
  [p EXCEPT !.pc = "hash",
            !.att = att + 1,
            !.syncAtt = syncAtt + 1,
            !.hashBuffer = increment(@, protocolOffset(p.forged), powLength - 1)]

\* no stamp search
NoPow == [pc |-> "none", forged |-> <<>>, priority |-> 0, seedHex |-> <<>>,
          hashBuffer |-> <<>>, att |-> 0, syncAtt |-> 0, calls |-> <<>>]

\* the constructor, line 101-124, followed by start()
Init ==
  /\ InitFields
  /\ noncesToReveal = <<>>
  /\ store = <<>>
  /\ InitRest
  /\ arg = NoArg
  /\ res = NoRes
  /\ pow = NoPow

\* load(s), line 782-785, with loadNonces, line 147-149: the list read from
\* the store s, whose i-th record is given the identity -i
loadNonces(s) ==
  [i \in DOMAIN s |-> [id |-> 0 - i, level |-> s[i].level,
                       revealed |-> s[i].revealed]]

\* ------------------------------------------------------------ actions
\* the clock moves on
AdvanceClock ==
  /\ now < MaxTime
  /\ now' = now + 1
  /\ ev' = [act |-> "other", wrote |-> FALSE]
  /\ chk' = NoCheck
  /\ err' = NoError
  /\ step' = NoStep
  /\ UNCHANGED << fields, flight, logs, util, timer >>

\* getDateNow, line 759, reads the system clock, which can be set back
ClockBack ==
  /\ now > 0
  /\ now' = now - 1
  /\ ev' = [act |-> "other", wrote |-> FALSE]
  /\ chk' = NoCheck
  /\ err' = NoError
  /\ step' = NoStep
  /\ UNCHANGED << fields, flight, logs, util, timer >>

\* run, line 198-265: an active timer fires; the injector drains pendingBlocks
\* against the head of the previous tick, then getHead() is sent unless locked
Tick ==
  LET d == InjectorLoop(1, [nb |-> <<>>, injected |-> injectedBlocks,
                            sent |-> <<>>, dropped |-> {}])
      sent == [i \in DOMAIN d.sent |-> [cand |-> d.sent[i], headLevel |-> head.level]]
  IN /\ timers # {}
     /\ pendingBlocks' = d.nb
     /\ injectedBlocks' = d.injected
     /\ injecting' = injecting (+) SeqToBag(d.sent)
     /\ injectLog' = injectLog (+) SeqToBag(sent)
     /\ discardLog' = discardLog \cup
                        {[cand |-> c, headLevel |-> head.level] : c \in d.dropped}
     /\ IF Locked
          THEN UNCHANGED << lockBaker, fetching >>
          ELSE lockBaker' = TRUE /\ fetching' = fetching + 1
     /\ step' = Sent(Repeat(Len(d.sent), "inject") \o Maybe(~Locked, "getHead"))
     /\ ev' = [act |-> "tick", wrote |-> FALSE]
     /\ chk' = NoCheck
     /\ err' = NoError
     /\ UNCHANGED << util, timer >>
     /\ UNCHANGED << head, startLevel, endorsedBlocks, bakedBlocks, badOps,
                     noncesToReveal, store, fetches, requiredEndorsements,
                     mempoolCheckCount, now, endorseQ, bakeQ, baking, revealing,
                     endorseLog, bakeLog, enqueueLog, revealLog, firstLevel >>

skipWrite(old, nonces) == old
\* Store, line 58-63: the setter, given an array
setBknonces(old, nonces) == nonces

\* run, line 265-382: getHead() answers h; the rest of the tick runs: reveal
\* pass, stand-down guard, and the two rights queries are sent.  The run
\* observed is one of at most bound answers
FetchWithin(h, bound) ==
  /\ fetching > 0
  /\ fetches < bound
  /\ fetches' = fetches + 1
  /\ head' = h
  /\ lockBaker' = FALSE
  /\ fetching' = fetching - 1
  /\ LET H == h.level
         nn == newNonces(noncesToReveal, H)
         due == dueNonces(noncesToReveal, H)
         wrote == Len(nn) # Len(noncesToReveal)
         start == IF startLevel = 0 THEN StandDownLevel(h) ELSE startLevel
         go == ~(start > H)
     IN /\ noncesToReveal' = IF wrote THEN nn ELSE noncesToReveal
        /\ store' = IF wrote THEN setBknonces(store, nn) ELSE store
        /\ revealing' = revealing \cup SeqToSet(due)
        /\ revealLog' = revealLog (+)
              SeqToBag([i \in DOMAIN due |-> [nonce |-> due[i], H |-> H]])
        /\ startLevel' = start
        /\ firstLevel' = IF startLevel = 0 THEN H ELSE firstLevel
        /\ endorseQ' = IF go /\ H \notin endorsedBlocks
                         THEN endorseQ (+) Bag1(h) ELSE endorseQ
        /\ bakeQ' = IF go /\ (H + 1) \notin bakedBlocks
                      THEN bakeQ (+) Bag1(h) ELSE bakeQ
        /\ ev' = [act |-> "head", wrote |-> wrote]
        /\ step' = Sent(Repeat(Len(due), "reveal")
                         \o Maybe(go /\ H \notin endorsedBlocks, "endorsing_rights")
                         \o Maybe(go /\ (H + 1) \notin bakedBlocks, "baking_rights"))
  /\ chk' = NoCheck
  /\ err' = NoError
  /\ UNCHANGED << util, timer >>
  /\ UNCHANGED << injectedBlocks, endorsedBlocks, bakedBlocks, pendingBlocks,
                  badOps, requiredEndorsements, mempoolCheckCount, now,
                  baking, injecting, endorseLog, bakeLog, injectLog, enqueueLog,
                  discardLog >>

FetchDone(h) == FetchWithin(h, MaxFetches)

\* run, line 265: getHead() rejects; run() ends with the lock still set
FetchFail ==
  /\ fetching > 0
  /\ fetching' = fetching - 1
  /\ ev' = [act |-> "other", wrote |-> FALSE]
  /\ chk' = NoCheck
  /\ err' = NoError
  /\ step' = NoStep
  /\ UNCHANGED << fields, endorseQ, bakeQ, baking, injecting, revealing, logs, now,
                  util, timer >>

\* run, line 287-323: the endorsing_rights query sent for head h completes;
\* rights is "fail" (the query rejects), "none" (empty list) or "some".
\* endorse(head), line 435-470, changes no field of the agent: its call is
\* recorded in endorseLog
EndorseRightsDone(h, rights) ==
  /\ BagIn(h, endorseQ)
  /\ endorseQ' = endorseQ (-) Bag1(h)
  /\ LET start == /\ rights = "some"
                  /\ ~EndorserHeadChanged(h)
                  /\ ~AlreadyEndorsed(h.level)
     IN /\ endorsedBlocks' = IF start THEN endorsedBlocks \cup {h.level}
                             ELSE endorsedBlocks
        /\ endorseLog' = IF start THEN endorseLog (+) Bag1([h |-> h, cur |-> head])
                         ELSE endorseLog
        /\ step' = Sent(Maybe(start, "endorse"))
  /\ ev' = [act |-> IF rights # "fail" /\ h.level # head.level
                      THEN "race" ELSE "other",
            wrote |-> FALSE]
  /\ chk' = NoCheck
  /\ err' = NoError
  /\ UNCHANGED << util, timer >>
  /\ UNCHANGED << head, startLevel, lockBaker, fetching, injectedBlocks,
                  bakedBlocks, pendingBlocks, badOps, noncesToReveal, store,
                  fetches, requiredEndorsements, mempoolCheckCount, now, bakeQ,
                  baking, injecting, revealing, bakeLog, injectLog, enqueueLog,
                  discardLog, revealLog, firstLevel >>

\* the answers of a baking_rights query for head h: the query rejects, the
\* list is empty, or its first right is [level, estimated_time]
BakeRightsAnswers(h) ==
  {[kind |-> "fail"], [kind |-> "none"]} \cup
  [kind : {"right"}, level : {h.level + 1, h.level + 2}, estimated_time : Times]

\* run, line 328-381: the baking_rights query sent for head h completes.
\* bake() runs up to its first await: the commitment seed is drawn (line
\* 503-520) and the mempool query is sent (line 522)
BakeRightsDone(h, rights) ==
  /\ BagIn(h, bakeQ)
  /\ bakeQ' = bakeQ (-) Bag1(h)
  /\ LET live == rights.kind # "fail" /\ ~BakerHeadChanged(h)
                   /\ ~AlreadyBaked(h.level + 1)
         nothing == live /\ rights.kind = "none"
         start == /\ live
                  /\ rights.kind = "right"
                  /\ RightIsDue(rights)
                  /\ rights.level = h.level + 1
     IN /\ bakedBlocks' = IF nothing THEN markNothingToBake(bakedBlocks, h.level + 1)
                          ELSE IF start THEN markBaking(bakedBlocks, h.level + 1)
                          ELSE bakedBlocks
        /\ step' = [sent |-> Maybe(start, "mempool"), rights |-> rights,
                    done |-> NoNonce]
        /\ baking' = IF start
                       THEN baking \cup {[head |-> h,
                                          timestamp |-> rights.estimated_time,
                                          pc |-> "mempool",
                                          retry |-> FALSE,
                                          rejections |-> 0,
                                          operations |-> NoOperations]}
                       ELSE baking
        /\ bakeLog' = IF start THEN bakeLog (+) Bag1([h |-> h, cur |-> head])
                      ELSE bakeLog
  /\ ev' = [act |-> IF rights.kind # "fail" /\ h.level # head.level
                      THEN "race" ELSE "other",
            wrote |-> FALSE]
  /\ chk' = NoCheck
  /\ err' = NoError
  /\ UNCHANGED << util, timer >>
  /\ UNCHANGED << head, startLevel, lockBaker, fetching, injectedBlocks,
                  endorsedBlocks, pendingBlocks, badOps, noncesToReveal, store,
                  fetches, requiredEndorsements, mempoolCheckCount, now, endorseQ,
                  injecting, revealing, endorseLog, injectLog, enqueueLog,
                  discardLog, revealLog, firstLevel >>

\* what no step of a running bake changes
BakeFrame ==
  /\ ev' = [act |-> "other", wrote |-> FALSE]
  /\ err' = NoError
  /\ UNCHANGED << util, timer >>
  /\ UNCHANGED << head, startLevel, lockBaker, fetching, injectedBlocks,
                  endorsedBlocks, bakedBlocks, badOps, noncesToReveal, store,
                  fetches, now, endorseQ, bakeQ, injecting, revealing, endorseLog,
                  bakeLog, injectLog, discardLog, revealLog, firstLevel >>

\* the answers of the mempool query: it rejects, or it shows one of the
\* applied lists of pools
MempoolAnswers(pools) ==
  {[fail |-> TRUE, applied |-> <<>>]} \cup [fail : {FALSE}, applied : pools]

\* bake, line 522-551 and 568-578: the mempool query of bake b answers m; a
\* rejected query fails bake.  A rejected gate sleeps and calls bake again,
\* which sends the query again; an accepted one selects the operations and
\* sends them to preapply
BakeMempool(b, m) ==
  /\ b \in baking /\ b.pc = "mempool"
  /\ b.rejections < MaxRejections
  /\ IF m.fail
       THEN /\ baking' = baking \ {b}
            /\ chk' = NoCheck
            /\ step' = NoStep
            /\ UNCHANGED << requiredEndorsements, mempoolCheckCount >>
       ELSE LET r == mempoolCheck(m.applied)
                ops == IF r.ok THEN selectOperations(m.applied, b.head)
                       ELSE NoOperations
            IN /\ mempoolCheckCount' = r.count
               /\ requiredEndorsements' = r.required
               /\ baking' = (baking \ {b}) \cup
                    {IF r.ok
                       THEN [b EXCEPT !.pc = "preapply", !.operations = ops,
                                      !.rejections = IF r.forced THEN 0 ELSE @]
                       ELSE [b EXCEPT !.retry = TRUE, !.rejections = @ + 1]}
               /\ chk' = [called |-> TRUE, head |-> b.head, mempool |-> m.applied,
                          bad |-> badOps, required |-> requiredEndorsements,
                          count |-> mempoolCheckCount,
                          rejections |-> b.rejections, first |-> ~b.retry,
                          ok |-> r.ok, forced |-> r.forced, operations |-> ops]
               /\ step' = Sent(<<IF r.ok THEN "preapply" ELSE "mempool">>)
  /\ UNCHANGED << pendingBlocks, enqueueLog >>
  /\ BakeFrame

keepHeader(ops) == ops
\* bake, line 592: header.operations = [[], [], [], []]
emptyHeader(ops) == NoOperations

\* bake, line 568-602: the first preapply of bake b answers: r = 0 accepted,
\* r > 0 'not enough endorsements', r required; r < 0 any other error, after
\* which the second preapply with no operations is sent
BakePreapply(b, r) ==
  /\ b \in baking /\ b.pc = "preapply"
  /\ requiredEndorsements' = IF r > 0 THEN r ELSE requiredEndorsements
  /\ baking' = (baking \ {b}) \cup
       {[b EXCEPT !.pc = IF r > 0 THEN "mempool"
                         ELSE IF r = 0 THEN "forge" ELSE "preapply2",
                  !.retry = IF r > 0 THEN TRUE ELSE @,
                  !.operations = IF r < 0 THEN emptyHeader(@) ELSE NoOperations]}
  /\ step' = Sent(<<IF r > 0 THEN "mempool"
                    ELSE IF r = 0 THEN "forge_block_header" ELSE "preapply">>)
  /\ chk' = NoCheck
  /\ UNCHANGED << pendingBlocks, enqueueLog, mempoolCheckCount >>
  /\ BakeFrame

\* bake, line 593-602: the second preapply answers; its failure fails bake
BakePreapply2(b, ok) ==
  /\ b \in baking /\ b.pc = "preapply2"
  /\ baking' = IF ok THEN (baking \ {b}) \cup {[b EXCEPT !.pc = "forge"]}
               ELSE baking \ {b}
  /\ step' = Sent(Maybe(ok, "forge_block_header"))
  /\ chk' = NoCheck
  /\ UNCHANGED << pendingBlocks, enqueueLog, requiredEndorsements,
                  mempoolCheckCount >>
  /\ BakeFrame

\* bake, line 628-663: forge_block_header answers and powLoop starts; a
\* rejection is not passed to the promise bake returned, which stays pending
BakeForge(b, ok) ==
  /\ b \in baking /\ b.pc = "forge"
  /\ baking' = (baking \ {b}) \cup {[b EXCEPT !.pc = IF ok THEN "pow" ELSE "hung"]}
  /\ step' = NoStep
  /\ chk' = NoCheck
  /\ UNCHANGED << pendingBlocks, enqueueLog, requiredEndorsements,
                  mempoolCheckCount >>
  /\ BakeFrame

\* powLoop, line 675-723: the stamp is found and the callback asks for the
\* signature
BakePow(b) ==
  /\ b \in baking /\ b.pc = "pow"
  /\ baking' = (baking \ {b}) \cup {[b EXCEPT !.pc = "sign"]}
  /\ step' = NoStep
  /\ chk' = NoCheck
  /\ UNCHANGED << pendingBlocks, enqueueLog, requiredEndorsements,
                  mempoolCheckCount >>
  /\ BakeFrame

\* bake, line 649-671 and run, line 358-368: the signature arrives, bake
\* resolves and run appends the candidate to pendingBlocks; a rejected
\* signature leaves the promise pending
BakeSign(b, ok) ==
  /\ b \in baking /\ b.pc = "sign"
  /\ LET cand == [level |-> b.head.level + 1, timestamp |-> b.timestamp,
                  seed |-> IsCommitmentLevel(b.head.level + 1)]
     IN IF ok
          THEN /\ baking' = baking \ {b}
               /\ pendingBlocks' = Append(pendingBlocks, cand)
               /\ enqueueLog' = enqueueLog \cup
                                  {[cand |-> cand, headLevel |-> head.level]}
          ELSE /\ baking' = (baking \ {b}) \cup {[b EXCEPT !.pc = "hung"]}
               /\ UNCHANGED << pendingBlocks, enqueueLog >>
  /\ step' = NoStep
  /\ chk' = NoCheck
  /\ UNCHANGED << requiredEndorsements, mempoolCheckCount >>
  /\ BakeFrame

\* the error payloads of /injection/block: arrays of entries, each naming an
\* operation or none
ErrorEntries == [operation : OpHashes \cup {"undefined"}]
Payloads == UNION {[1 .. k -> ErrorEntries] : k \in 0 .. MaxErrors}

\* the answers of /injection/block: the block hash, an error whose payload is
\* an array, or an error whose payload is not
InjectAnswers == {[kind |-> "ok", error |-> <<>>], [kind |-> "other", error |-> <<>>]}
                 \cup [kind : {"array"}, error : Payloads]

KeepNonceList(list, n) == list
\* addNonce, line 151-154
addNonce(list, n) == Append(list, n)

\* run, line 234-241: the operation hashes the catch handler learns
learnedOps(r) ==
  IF r.kind = "array" /\ Len(r.error) > 0 /\ r.error[1].operation # "undefined"
    THEN {r.error[1].operation}
    ELSE {}

\* run, line 215-252: the injection request of candidate c completes
InjectDone(c, r) ==
  /\ BagIn(c, injecting)
  /\ injecting' = injecting (-) Bag1(c)
  /\ LET add == r.kind = "ok" /\ c.seed
         list == addNonce(noncesToReveal,
                          [id |-> c.level, level |-> c.level, revealed |-> FALSE])
     IN /\ noncesToReveal' = IF add THEN list ELSE noncesToReveal
        /\ store' = IF add THEN setBknonces(store, list) ELSE store
        /\ ev' = [act |-> IF r.kind = "ok" THEN "injected" ELSE "failed",
                  wrote |-> add]
  /\ badOps' = IF r.kind = "ok" THEN badOps ELSE badOps \cup learnedOps(r)
  /\ chk' = NoCheck
  /\ err' = r.error
  /\ step' = NoStep
  /\ UNCHANGED << head, startLevel, lockBaker, fetching, injectedBlocks,
                  endorsedBlocks, bakedBlocks, pendingBlocks, fetches,
                  requiredEndorsements, mempoolCheckCount, now, endorseQ, bakeQ,
                  baking, revealing, logs, util, timer >>

\* the ways the pipeline of reveal can end: by the answer of the injection,
\* or by the rejection of one of its four requests
RevealOutcomes == {"ok", "forge", "sign", "preapply", "inject"}

leavePending(n) == n
\* reveal, line 423 and 431: nonce.revealed = true
settle(n) == [n EXCEPT !.revealed = TRUE]

\* reveal, line 398-432: the pipeline of nonce n ends, by success or by the
\* failure of any stage; both set revealed on the nonce object
RevealDone(n, outcome) ==
  /\ n \in revealing
  /\ revealing' = revealing \ {n}
  /\ noncesToReveal' = MarkRevealed(noncesToReveal, n)
  /\ store' = MarkRevealed(store, n)
  /\ ev' = [act |-> "other", wrote |-> FALSE]
  /\ chk' = NoCheck
  /\ err' = NoError
  /\ step' = [NoStep EXCEPT !.done = [id |-> settle(n).id, level |-> settle(n).level,
                                      revealed |-> settle(n).revealed,
                                      outcome |-> outcome]]
  /\ UNCHANGED << util, timer >>
  /\ UNCHANGED << head, startLevel, lockBaker, fetching, injectedBlocks,
                  endorsedBlocks, bakedBlocks, pendingBlocks, badOps,
                  requiredEndorsements, mempoolCheckCount, now, endorseQ, bakeQ,
                  baking, injecting, logs >>

\* ------------------------------------------------------------ specifications
\* The control loop against a node whose head moves within Levels (with any
\* hash, forwards and backwards) and whose preapply never asks for more
\* endorsements, in a run during which the clock shows one value: a right
\* with estimated_time 0 is due, one with a later time is not.
Next ==
  \/ Tick
  \/ \E h \in Heads : FetchDone(h)
  \/ FetchFail
  \/ \E h \in Heads, r \in {"fail", "none", "some"} : EndorseRightsDone(h, r)
  \/ \E h \in Heads : \E r \in BakeRightsAnswers(h) : BakeRightsDone(h, r)
  \/ \E b \in baking, m \in MempoolAnswers({<<>>}) : BakeMempool(b, m)
  \/ \E b \in baking, r \in {-1, 0} : BakePreapply(b, r)
  \/ \E b \in baking, ok \in BOOLEAN : BakePreapply2(b, ok)
  \/ \E b \in baking, ok \in BOOLEAN : BakeForge(b, ok)
  \/ \E b \in baking : BakePow(b)
  \/ \E b \in baking, ok \in BOOLEAN : BakeSign(b, ok)
  \/ \E c \in BagToSet(injecting), r \in InjectAnswers : InjectDone(c, r)
  \/ \E n \in revealing, o \in RevealOutcomes : RevealDone(n, o)

Spec == Init /\ [][Next]_vars

\* the same, with a clock that moves
NextTimed == Next \/ AdvanceClock

SpecTimed == Init /\ [][NextTimed]_vars

\* the stores load() may be given
StoredNonces == [level : NonceLevels, revealed : BOOLEAN]
Stores == UNION {[1 .. k -> StoredNonces] : k \in 0 .. MaxStoreLen}

\* a store object whose _bknonces field was never set, and the store
\* objects load() may be given
Uninitialized == [set |-> FALSE, list |-> <<>>]
StoreObjects == {Uninitialized} \cup [set : {TRUE}, list : Stores]

\* Store, line 51-56: the getter
bknonces(s) == IF ~s.set THEN <<>> ELSE s.list

\* the state after the constructor, load(s) of a store object and start()
InitReveal ==
  /\ InitFields
  /\ \E s \in StoreObjects : /\ noncesToReveal = loadNonces(bknonces(s))
                              /\ store = loadNonces(bknonces(s))
  /\ InitRest
  /\ arg = NoArg
  /\ res = NoRes
  /\ pow = NoPow

\* the reveal pass of an agent whose key has no rights, given a stored list,
\* against a node whose head moves around the reveal windows
NextReveal ==
  \/ Tick
  \/ \E h \in RevealHeads : FetchDone(h)
  \/ \E h \in RevealHeads : EndorseRightsDone(h, "none")
  \/ \E h \in RevealHeads : BakeRightsDone(h, [kind |-> "none"])
  \/ \E n \in revealing, o \in RevealOutcomes : RevealDone(n, o)

SpecReveal == InitReveal /\ [][NextReveal]_vars

\* a right of the agent for the level above h, already due
DueRight(h) == [kind |-> "right", level |-> h.level + 1, estimated_time |-> 0]

\* heads of one branch, on the three lowest levels
LowHeads == [hash : {"a"}, level : LoLevel .. (LoLevel + 2)]

\* an endorsement with hash x on the branch of LowHeads
Endorsement(x) == [hash |-> x, branch |-> "a", contents |-> <<"endorsement">>]

\* applied lists showing 0 to MaxRequired endorsements
GatePools == {[i \in 1 .. k |-> Endorsement(IF i = 1 THEN "opX" ELSE "opY")] :
                k \in 0 .. MaxRequired}

\* The mempool gate of an agent that has the baking right of every level,
\* against a node whose preapply may ask for up to MaxRequired endorsements,
\* whose mempool shows at most as many, and whose endorsing_rights queries
\* are still unanswered.
NextGate ==
  \/ Tick
  \/ \E h \in LowHeads : FetchDone(h)
  \/ \E h \in LowHeads : BakeRightsDone(h, DueRight(h))
  \/ \E b \in baking, m \in MempoolAnswers(GatePools) : BakeMempool(b, m)
  \/ \E b \in baking, r \in 0 .. MaxRequired : BakePreapply(b, r)
  \/ \E b \in baking : BakeForge(b, TRUE)
  \/ \E b \in baking : BakePow(b)
  \/ \E b \in baking : BakeSign(b, TRUE)
  \/ \E c \in BagToSet(injecting) : InjectDone(c, [kind |-> "ok", error |-> <<>>])

SpecGate == Init /\ [][NextGate]_vars

\* The same, with a timer that keeps firing and a node that answers every
\* request it is sent, with whatever answer
SpecGateFair ==
  /\ SpecGate
  /\ WF_vars(Tick)
  /\ WF_vars(\E h \in LowHeads : FetchDone(h))
  /\ WF_vars(\E h \in LowHeads : BakeRightsDone(h, DueRight(h)))
  /\ WF_vars(\E b \in baking, m \in MempoolAnswers(GatePools) : BakeMempool(b, m))
  /\ WF_vars(\E b \in baking, r \in 0 .. MaxRequired : BakePreapply(b, r))
  /\ WF_vars(\E b \in baking : BakeForge(b, TRUE))
  /\ WF_vars(\E b \in baking : BakePow(b))
  /\ WF_vars(\E b \in baking : BakeSign(b, TRUE))
  /\ WF_vars(\E c \in BagToSet(injecting) :
               InjectDone(c, [kind |-> "ok", error |-> <<>>]))

\* The same agent, with the endorsing and baking right of every level, against
\* a node that accepts every request and whose head moves within LowHeads,
\* forwards and backwards, over MaxReturns answers of getHead()
NextRollback ==
  \/ Tick
  \/ \E h \in LowHeads : FetchWithin(h, MaxReturns)
  \/ \E h \in LowHeads : EndorseRightsDone(h, "some")
  \/ \E h \in LowHeads : BakeRightsDone(h, DueRight(h))
  \/ \E b \in baking : BakeMempool(b, [fail |-> FALSE, applied |-> <<>>])
  \/ \E b \in baking : BakePreapply(b, 0)
  \/ \E b \in baking : BakeForge(b, TRUE)
  \/ \E b \in baking : BakePow(b)
  \/ \E b \in baking : BakeSign(b, TRUE)
  \/ \E c \in BagToSet(injecting) : InjectDone(c, [kind |-> "ok", error |-> <<>>])

SpecRollback == Init /\ [][NextRollback]_vars

\* heads of one branch on the first level of the second cycle, where the
\* nonces of the last level of the first cycle are due, and on the first
\* level of the third, where those of the second cycle are
OrderHeads == [hash : {"a"}, level : {cycleLength + 1, 2 * cycleLength + 1}]

\* The whole tick of an agent given a stored list, with the endorsing and
\* baking right of every level, against a node that accepts every request
\* and whose head moves within OrderHeads
NextOrder ==
  \/ Tick
  \/ \E h \in OrderHeads : FetchDone(h)
  \/ \E h \in OrderHeads : EndorseRightsDone(h, "some")
  \/ \E h \in OrderHeads : BakeRightsDone(h, DueRight(h))
  \/ \E b \in baking : BakeMempool(b, [fail |-> FALSE, applied |-> <<>>])
  \/ \E b \in baking : BakePreapply(b, 0)
  \/ \E b \in baking : BakeForge(b, TRUE)
  \/ \E b \in baking : BakePow(b)
  \/ \E b \in baking : BakeSign(b, TRUE)
  \/ \E c \in BagToSet(injecting) : InjectDone(c, [kind |-> "ok", error |-> <<>>])
  \/ \E n \in revealing, o \in RevealOutcomes : RevealDone(n, o)

SpecOrder == InitReveal /\ [][NextOrder]_vars

\* what a call of start() or stop() leaves alone
TimerFrame ==
  /\ chk' = NoCheck
  /\ err' = NoError
  /\ step' = NoStep
  /\ UNCHANGED << fields, flight, logs, now, util >>

\* start, line 787-797
Start ==
  /\ issued < MaxStarts
  /\ LET t == startTimer(bakeIntervalId, timers, issued)
     IN /\ bakeIntervalId' = t.bakeIntervalId
        /\ timers' = t.timers
        /\ issued' = t.issued
  /\ ev' = [act |-> "start", wrote |-> FALSE]
  /\ TimerFrame

\* stop, line 799-806
Stop ==
  /\ LET t == stopTimer(bakeIntervalId, timers, issued)
     IN /\ bakeIntervalId' = t.bakeIntervalId
        /\ timers' = t.timers
        /\ issued' = t.issued
  /\ ev' = [act |-> "stop", wrote |-> FALSE]
  /\ TimerFrame

\* the state after the constructor and load(s) of a store object
InitLoaded ==
  /\ InitFields
  /\ \E s \in StoreObjects : /\ noncesToReveal = loadNonces(bknonces(s))
                              /\ store = loadNonces(bknonces(s))
  /\ InitIdle
  /\ NotStarted
  /\ arg = NoArg
  /\ res = NoRes
  /\ pow = NoPow

\* The agent of SpecOrder, started and stopped at any moment
NextTimer ==
  \/ Start
  \/ Stop
  \/ NextOrder

SpecTimer == InitLoaded /\ [][NextTimer]_vars

\* heads of one branch around the end of the first cycle: its last level is
\* a commitment level, and the nonces of that level are due on the first
\* level of the second cycle
StoreHeads == [hash : {"a"}, level : (cycleLength - 2) .. (cycleLength + 1)]

\* The agent given a store object, with the baking right of every level,
\* against a node that accepts every request: nonces are loaded, added by
\* accepted injections and taken away by reveal passes
NextStore ==
  \/ Tick
  \/ \E h \in StoreHeads : FetchDone(h)
  \/ \E h \in StoreHeads : EndorseRightsDone(h, "none")
  \/ \E h \in StoreHeads : BakeRightsDone(h, DueRight(h))
  \/ \E b \in baking : BakeMempool(b, [fail |-> FALSE, applied |-> <<>>])
  \/ \E b \in baking : BakePreapply(b, 0)
  \/ \E b \in baking : BakeForge(b, TRUE)
  \/ \E b \in baking : BakePow(b)
  \/ \E b \in baking : BakeSign(b, TRUE)
  \/ \E c \in BagToSet(injecting) : InjectDone(c, [kind |-> "ok", error |-> <<>>])
  \/ \E n \in revealing, o \in RevealOutcomes : RevealDone(n, o)

SpecStore == InitReveal /\ [][NextStore]_vars

\* The baker and the injector of the same agent under a system clock that
\* moves forwards and is set back, against a node that gives any answer to
\* the baking_rights query and accepts every other request
NextClock ==
  \/ AdvanceClock
  \/ ClockBack
  \/ Tick
  \/ \E h \in LowHeads : FetchDone(h)
  \/ \E h \in LowHeads : \E r \in BakeRightsAnswers(h) : BakeRightsDone(h, r)
  \/ \E b \in baking : BakeMempool(b, [fail |-> FALSE, applied |-> <<>>])
  \/ \E b \in baking : BakePreapply(b, 0)
  \/ \E b \in baking : BakeForge(b, TRUE)
  \/ \E b \in baking : BakePow(b)
  \/ \E b \in baking : BakeSign(b, TRUE)
  \/ \E c \in BagToSet(injecting) : InjectDone(c, [kind |-> "ok", error |-> <<>>])

SpecClock == Init /\ [][NextClock]_vars

\* start, line 795: setInterval keeps calling run
SpecClockFair == SpecClock /\ WF_vars(Tick)

\* the operations a mempool answer may show, and its applied lists
PoolOps == [hash : PoolHashes, branch : Hashes,
            contents : {<<"endorsement">>, <<"ballot">>}]
SelectPools == UNION {[1 .. k -> PoolOps] : k \in 0 .. MaxPoolLen}

\* The operation selection of the same agent, against a node whose mempool
\* shows any list of PoolOps, whose preapply accepts and whose injection may
\* fail naming an operation.
NextSelect ==
  \/ Tick
  \/ \E h \in LowHeads : FetchDone(h)
  \/ \E h \in LowHeads : EndorseRightsDone(h, "none")
  \/ \E h \in LowHeads : BakeRightsDone(h, DueRight(h))
  \/ \E b \in baking, m \in MempoolAnswers(SelectPools) : BakeMempool(b, m)
  \/ \E b \in baking : BakePreapply(b, 0)
  \/ \E b \in baking : BakeForge(b, TRUE)
  \/ \E b \in baking : BakePow(b)
  \/ \E b \in baking : BakeSign(b, TRUE)
  \/ \E c \in BagToSet(injecting), r \in InjectAnswers : InjectDone(c, r)

SpecSelect == Init /\ [][NextSelect]_vars

\* applied lists showing nothing or one ballot on the branch of LowHeads
BallotPools == {<<>>, <<[hash |-> "opX", branch |-> "a", contents |-> <<"ballot">>]>>}

\* The bake of the same agent against a node whose mempool query always
\* answers, whose first preapply accepts or fails for a reason other than
\* endorsements, and whose second preapply accepts or fails
NextPreapply ==
  \/ Tick
  \/ \E h \in LowHeads : FetchDone(h)
  \/ \E h \in LowHeads : BakeRightsDone(h, DueRight(h))
  \/ \E b \in baking, p \in BallotPools :
       BakeMempool(b, [fail |-> FALSE, applied |-> p])
  \/ \E b \in baking, r \in {-1, 0} : BakePreapply(b, r)
  \/ \E b \in baking, ok \in BOOLEAN : BakePreapply2(b, ok)
  \/ \E b \in baking : BakeForge(b, TRUE)
  \/ \E b \in baking : BakePow(b)
  \/ \E b \in baking : BakeSign(b, TRUE)
  \/ \E c \in BagToSet(injecting) : InjectDone(c, [kind |-> "ok", error |-> <<>>])

SpecPreapply == Init /\ [][NextPreapply]_vars

\* ------------------------------------------------------------ utilities
\* the arguments of the utility functions: the contents of an operation, or
\* a network name and a cycle number, or the reveal window with a network
\* name and a nonce level
Contents == UNION {[1 .. k -> Kinds] : k \in 0 .. MaxContents}
Networks == {"mainnet", "zeronet", "carthagenet"}
Args == [fn : {"operationPass"}, contents : Contents, net : {"none"}, c : {0},
         level : {0}]
        \cup [fn : {"cycle"}, contents : {<<>>}, net : Networks, c : 0 .. MaxCycle,
               level : {0}]
        \cup [fn : {"window"}, contents : {<<>>}, net : Networks, c : {0},
               level : 1 .. MaxNonceLevel]

\* an agent just constructed, and the argument of one utility call
InitUtil ==
  /\ InitFields
  /\ noncesToReveal = <<>>
  /\ store = <<>>
  /\ InitRest
  /\ arg \in Args
  /\ res = NoRes
  /\ pow = NoPow

\* what a utility call leaves alone: every field but the result
UtilFrame ==
  /\ ev' = [act |-> "other", wrote |-> FALSE]
  /\ UNCHANGED << fields, flight, logs, now, chk, err, step, arg, pow, timer >>

\* operationPass, line 761-780, called on an operation with arg.contents
CallOperationPass ==
  /\ arg.fn = "operationPass" /\ ~res.done
  /\ res' = [NoRes EXCEPT !.done = TRUE,
                          !.pass = operationPass([hash |-> "opX", branch |-> "a",
                                                  contents |-> arg.contents])]
  /\ UtilFrame

\* line 189-195, for an agent built for network arg.net: the first and last
\* level of cycle arg.c, their cycles, and the first level of the next cycle
CallCycle ==
  /\ arg.fn = "cycle" /\ ~res.done
  /\ LET K == getConstants(arg.net).cycleLength
         s == cycleToLevelStartOn(K, arg.c)
         e == cycleToLevelEndOn(K, arg.c)
     IN res' = [done |-> TRUE, pass |-> 0, start |-> s, end |-> e,
                cycleOfStart |-> levelToCycleOn(K, s),
                cycleOfEnd |-> levelToCycleOn(K, e),
                nextStart |-> cycleToLevelStartOn(K, arg.c + 1)]
  /\ UtilFrame

\* revealNonces, line 159-164, for an agent built for network arg.net and a
\* nonce of level arg.level: startReveal and endReveal
CallWindow ==
  /\ arg.fn = "window" /\ ~res.done
  /\ LET K == getConstants(arg.net).cycleLength
     IN res' = [NoRes EXCEPT
                  !.done = TRUE,
                  !.start = cycleToLevelStartOn(K, levelToCycleOn(K, arg.level) + 1),
                  !.end = cycleToLevelEndOn(K, levelToCycleOn(K, arg.level) + 1)]
  /\ UtilFrame

NextUtil == CallOperationPass \/ CallCycle \/ CallWindow

SpecUtil == InitUtil /\ [][NextUtil]_vars

\* the arguments of powLoop: forged header bytes, a priority and the hash of
\* a seed or none
Forged == {<<0, 1>>, <<10, 11, 12, 13>>}
Priorities == 0 .. MaxPriority
Seeds == {<<>>, <<10, 11>>}

\* the digests the hash may give: the least, the threshold, the values next
\* above it in each of the bytes that decide, and the greatest
Digests == {<<0, 0, 0, 0, 0, 0, 0, 0>>,
            <<0, 0, 63, 255, 255, 255, 255, 255>>,
            <<0, 0, 64, 0, 0, 0, 0, 0>>,
            <<0, 1, 0, 0, 0, 0, 0, 0>>,
            <<1, 0, 0, 0, 0, 0, 0, 0>>,
            <<255, 255, 255, 255, 255, 255, 255, 255>>}

\* an agent just constructed, and the arguments of one call of powLoop
InitPow ==
  /\ InitFields
  /\ noncesToReveal = <<>>
  /\ store = <<>>
  /\ InitRest
  /\ arg = NoArg
  /\ res = NoRes
  /\ pow \in [pc : {"start"}, forged : Forged, priority : Priorities,
               seedHex : Seeds, hashBuffer : {<<>>}, att : {0}, syncAtt : {0},
               calls : {<<>>}]

\* what a step of the stamp search leaves alone
PowFrame ==
  /\ ev' = [act |-> "other", wrote |-> FALSE]
  /\ UNCHANGED << fields, flight, logs, now, chk, err, step, arg, res, timer >>

\* powLoop, line 675-700: the buffer is built and the first attempt runs up
\* to its hash
CallPowLoop ==
  /\ pow.pc = "start"
  /\ LET pdd == createProtocolData(pow.priority, powHeader, Zeros(8), pow.seedHex)
         blockbytes == pow.forged \o pdd
         hashBuffer == hex2buf(blockbytes \o Zeros(placeholderLength))
     IN pow' = powLoopHelper([pow EXCEPT !.hashBuffer = hashBuffer], 0, 0)
  /\ PowFrame

alwaysInBatch(syncAtt) == TRUE
\* powLoopHelper, line 716: the batch goes on
inBatch(syncAtt) == syncAtt < syncBatchSize

\* powLoopHelper, line 711-721: the hash of the buffer is d.  A digest that
\* passes ends the search with the callback; otherwise the next attempt runs
\* at once, or after syncBatchSize attempts is handed to setImmediate
PowChecked(d) ==
  /\ pow.pc = "hash"
  /\ pow.att < MaxAttempts
  /\ IF checkHash(d)
       THEN LET hex == buf2hex(pow.hashBuffer)
            IN pow' = [pow EXCEPT
                         !.pc = "found",
                         !.calls = Append(@, [hex |-> SubSeq(hex, 1, Len(hex) - placeholderLength),
                                              att |-> pow.att,
                                              hashed |-> pow.hashBuffer,
                                              digest |-> d])]
       ELSE IF inBatch(pow.syncAtt)
         THEN pow' = powLoopHelper(pow, pow.att, pow.syncAtt)
         ELSE pow' = [pow EXCEPT !.pc = "immediate"]
  /\ PowFrame

\* powLoopHelper, line 720: setImmediate runs the next attempt, syncAtt = 0
PowResume ==
  /\ pow.pc = "immediate"
  /\ pow' = powLoopHelper(pow, pow.att, 0)
  /\ PowFrame

\* start, line 795: between the attempts of a batch only promise reactions
\* run, so the timer callback runs when a batch has handed the next attempt
\* to setImmediate, or when the search is over
TickBetweenBatches ==
  /\ pow.pc \in {"immediate", "found"}
  /\ Tick

NextPow ==
  \/ CallPowLoop
  \/ \E d \in Digests : PowChecked(d)
  \/ PowResume
  \/ TickBetweenBatches

SpecPow == InitPow /\ [][NextPow]_vars
\* ------------------------------------------------------------ properties
LogSet(log) == BagToSet(log)

\* C1: for every level L, endorse(head) with head.level = L is called at most
\* once in a run, whatever the interleaving of ticks, query completions, head
\* changes and rollbacks.
EndorseOncePerLevel ==
  \A e1, e2 \in LogSet(endorseLog) :
    e1.h.level = e2.h.level => e1 = e2 /\ CopiesIn(e1, endorseLog) = 1

\* a level has been endorsed while a second rights query for that level,
\* sent by another tick, is still in flight
EndorseRaceWitness ==
  \E e \in LogSet(endorseLog) : \E q \in BagToSet(endorseQ) :
    q.level = e.h.level

\* C2: for every level L at most one request goes to the block-injection
\* endpoint, and no candidate is submitted twice.
InjectOncePerLevel ==
  \A e1, e2 \in LogSet(injectLog) :
    e1.cand.level = e2.cand.level => e1 = e2 /\ CopiesIn(e1, injectLog) = 1

\* a candidate was submitted, its request has completed, and a later tick has
\* drained the injector again
InjectedThenTickWitness ==
  /\ ev.act = "tick"
  /\ \E e \in LogSet(injectLog) :
       /\ e.cand.level \in injectedBlocks
       /\ ~BagIn(e.cand, injecting)
       /\ e.headLevel # head.level

\* C3: nonce window law: every reveal(head, nonce) call made at observed
\* head level H has startReveal <= H <= endReveal for that nonce.
NonceWindowLaw ==
  \A e \in LogSet(revealLog) :
    startReveal(e.nonce) <= e.H /\ e.H <= endReveal(e.nonce)

\* C4: after a reveal pass at head level H no nonce whose window has closed is
\* left in the outstanding list or in the store, whatever its revealed flag.
ClosedWindowDropped ==
  ev.act = "head" =>
    \A n \in SeqToSet(noncesToReveal) \cup SeqToSet(store) :
      ~WindowClosed(n, head.level)

\* C5: a reveal pass at head level H keeps every nonce with H < startReveal in
\* the list and calls reveal for none of them; a pass that drops no nonce does
\* not call the store's setter.
EarlyNoncesKept ==
  [][ev'.act = "head" =>
       /\ \A n \in SeqToSet(noncesToReveal) :
            head'.level < startReveal(n) =>
              /\ n \in SeqToSet(noncesToReveal')
              /\ \A e \in LogSet(revealLog') :
                   e.nonce = n => CopiesIn(e, revealLog') = CopiesIn(e, revealLog)
       /\ Len(noncesToReveal') = Len(noncesToReveal) =>
            ~ev'.wrote /\ store' = store]_vars

\* a reveal pass has just left a nonce whose window has not opened in the
\* list, without writing the store
EarlyNonceWitness ==
  /\ ev.act = "head"
  /\ ~ev.wrote
  /\ \E n \in SeqToSet(noncesToReveal) : head.level < startReveal(n)

\* C6: reveal is called at most once for each nonce record, and a record for
\* which it was called is no longer in the outstanding list.
RevealOncePerNonce ==
  /\ \A e1, e2 \in LogSet(revealLog) :
       e1.nonce.id = e2.nonce.id => e1 = e2 /\ CopiesIn(e1, revealLog) = 1
  /\ \A e \in LogSet(revealLog) : \A n \in SeqToSet(noncesToReveal) :
       n.id # e.nonce.id

\* a nonce was revealed by one tick and a later tick has run its reveal pass
\* at a head level inside the nonce's window
RevealedThenPassWitness ==
  /\ ev.act = "head"
  /\ \E e \in LogSet(revealLog) :
       /\ e.H # head.level
       /\ startReveal(e.nonce) <= head.level
       /\ head.level <= endReveal(e.nonce)

\* C7: stand-down: with L0 the level of the first head observed, no rights
\* query is ever sent for a head of level <= L0, no endorse is started for a
\* level <= L0 and no bake for a level <= L0 + 1.
StandDown ==
  /\ \A q \in BagToSet(endorseQ) \cup BagToSet(bakeQ) : q.level > firstLevel
  /\ \A e \in LogSet(endorseLog) : e.h.level > firstLevel
  /\ \A b \in LogSet(bakeLog) : b.h.level + 1 > firstLevel + 1

\* a second tick saw the first level again, and a tick at level L0 + 1 has
\* endorsed L0 + 1 and started the bake of L0 + 2
StandDownWitness ==
  /\ firstLevel > 0
  /\ fetches = MaxFetches
  /\ \E e \in LogSet(endorseLog) : e.h.level = firstLevel + 1
  /\ \E b \in LogSet(bakeLog) : b.h.level + 1 = firstLevel + 2

\* C8: injector freshness: no candidate is submitted whose level is <= the
\* level of this.head at that moment, and after an injector pass no such
\* candidate is left in pendingBlocks.
InjectorFreshness ==
  /\ \A e \in LogSet(injectLog) : e.cand.level > e.headLevel
  /\ ev.act = "tick" =>
       \A c \in SeqToSet(pendingBlocks) : c.level > head.level

\* the injector has just dropped a candidate at or below the head level,
\* which was never submitted
StaleDroppedWitness ==
  /\ ev.act = "tick"
  /\ \E d \in discardLog :
       /\ d.cand.level <= d.headLevel
       /\ d.headLevel = head.level
       /\ \A e \in LogSet(injectLog) : e.cand.level # d.cand.level

\* C9, as stated: every candidate has level > head.level at the moment it is
\* appended to pendingBlocks.
EnqueuedAboveHead ==
  \A e \in enqueueLog : e.cand.level > e.headLevel

\* C9, amended: when a bake is started its target level (the level above the
\* head it is given) is above the current head level, and every candidate
\* appended is the one of a started bake, for that bake's target level.
BakeStartedAboveHead ==
  /\ \A b \in LogSet(bakeLog) : b.h.level + 1 > b.cur.level
  /\ \A e \in enqueueLog :
       \E b \in LogSet(bakeLog) : e.cand.level = b.h.level + 1

\* a candidate was appended after later ticks had replaced the head its bake
\* was given by a head of another level
EnqueuedAfterHeadMovedWitness ==
  \E e \in enqueueLog : e.headLevel # e.cand.level - 1

\* C10: head race: endorse(H1) is not started once a later tick has replaced
\* the head by one with a different hash.
EndorseOnlyCurrentHead ==
  \A e \in LogSet(endorseLog) : e.cur.hash = e.h.hash

\* C11: level race: when a rights query completes for a head whose level is
\* not the level of this.head, no endorse and no bake is started, the level
\* is not added to endorsedBlocks or bakedBlocks, and the marker sets, the
\* pending queue and the nonce list are unchanged.
LevelRaceAborts ==
  [][\A h \in Heads :
       (/\ h.level # head.level
        /\ \/ BagIn(h, endorseQ) /\ endorseQ' = endorseQ (-) Bag1(h)
           \/ BagIn(h, bakeQ) /\ bakeQ' = bakeQ (-) Bag1(h))
       => UNCHANGED << injectedBlocks, endorsedBlocks, bakedBlocks, pendingBlocks,
                       noncesToReveal, store, baking, endorseLog, bakeLog >>]_vars

\* a rights query has just completed with an answer, for a head whose level
\* this.head no longer has, after at least one endorsement was made
LevelRaceWitness ==
  /\ ev.act = "race"
  /\ endorseLog # EmptyBag

\* the number of endorsements the applied list of the last check shows
SeenEndorsements == mempoolEndorsements(chk.mempool)

\* C12: gate decision: mempoolCheck accepts whenever the endorsements seen
\* are >= requiredEndorsements and then leaves requiredEndorsements at 0; it
\* rejects when they are fewer, unless the forced-acceptance bound is reached.
GateDecision ==
  chk.called =>
    /\ SeenEndorsements >= chk.required => chk.ok /\ requiredEndorsements = 0
    /\ (SeenEndorsements < chk.required /\ chk.count < mempoolCheckLimit) => ~chk.ok

\* C13: forced acceptance is per bake: a check is accepted by force exactly
\* when the bake that makes it has itself been rejected mempoolCheckLimit
\* times since it started or was last accepted by force.
ForcedPerBake ==
  chk.called => (chk.forced <=> chk.rejections = mempoolCheckLimit)

\* C14: the first mempoolCheck of every bake finds requiredEndorsements = 0
\* and accepts.
FirstCheckUnconditional ==
  (chk.called /\ chk.first) => chk.required = 0 /\ chk.ok

\* the partition as the text gives it, for an operation with contents cs
StatedPass(cs) ==
  IF Len(cs) # 1 THEN 3
  ELSE IF cs[1] = "endorsement" THEN 0
  ELSE IF cs[1] = "proposals" \/ cs[1] = "ballot" THEN 1
  ELSE IF \/ cs[1] = "seed_nonce_revelation"
          \/ cs[1] = "double_endorsement_evidence"
          \/ cs[1] = "double_baking_evidence"
          \/ cs[1] = "activate_account" THEN 2
  ELSE 3

\* C15: pass partition: operationPass maps a single-content operation to 0
\* for endorsement, 1 for proposals or ballot, 2 for the four evidence and
\* activation kinds, 3 for any other kind, and every operation whose contents
\* length is not 1 to 3; the result is in 0..3.
PassPartition ==
  (res.done /\ arg.fn = "operationPass") =>
    res.pass = StatedPass(arg.contents) /\ res.pass \in 0 .. 3

\* operationPass has classified an operation with two contents, the first an
\* endorsement
MultiContentWitness ==
  /\ res.done /\ arg.fn = "operationPass"
  /\ Len(arg.contents) = 2 /\ arg.contents[1] = "endorsement"
  /\ res.pass = 3

\* C16: cycle round trip: for every cycle c and every preset,
\* levelToCycle(cycleToLevelStart(c)) = c, levelToCycle(cycleToLevelEnd(c)) = c
\* and cycleToLevelEnd(c) + 1 = cycleToLevelStart(c + 1).
CycleRoundTrip ==
  (res.done /\ arg.fn = "cycle") =>
    /\ res.cycleOfStart = arg.c
    /\ res.cycleOfEnd = arg.c
    /\ res.end + 1 = res.nextStart

\* the geometry of the highest cycle has been computed for the main network
CycleWitness ==
  /\ res.done /\ arg.fn = "cycle"
  /\ arg.net = "mainnet" /\ arg.c = MaxCycle
  /\ res.end = (MaxCycle + 1) * MAINNET.cycleLength

\* C17: a failed head fetch is not fatal: a later tick that finds no fetch in
\* flight sends getHead() again.
TickFetchesAgain ==
  [][(ev'.act = "tick" /\ fetching = 0) => fetching' > 0]_vars

\* C18: after a failed injection every operation hash named in the error
\* payload is in badOps.
NamedOpsLearned ==
  \A i \in DOMAIN err :
    err[i].operation # "undefined" => err[i].operation \in badOps

\* the indices of the applied list m the text keeps for a bake on a head with
\* hash hh, given the bad operations bad: right branch, not bad, and no
\* earlier such operation with the same hash
Eligible(m, hh, bad, i) == m[i].branch = hh /\ m[i].hash \notin bad
KeptIndices(m, hh, bad) ==
  {i \in DOMAIN m :
     /\ Eligible(m, hh, bad, i)
     /\ \A j \in 1 .. (i - 1) :
          Eligible(m, hh, bad, j) => m[j].hash # m[i].hash}
\* slot k of the matrix the text describes: the kept operations of pass k, in
\* the order of the list
StatedSlot(m, hh, bad, k) ==
  LET idx == SelectSeq([i \in DOMAIN m |-> i],
                       LAMBDA i : i \in KeptIndices(m, hh, bad)
                                  /\ operationPass(m[i]) = k)
  IN [n \in DOMAIN idx |-> [branch |-> m[idx[n]].branch,
                            contents |-> m[idx[n]].contents]]

NonceOnSeededInjection ==
  [][/\ \A c \in BagToSet(injecting) :
          injecting' = injecting (-) Bag1(c) =>
            IF ev'.act = "injected" /\ c.seed
              THEN /\ Len(noncesToReveal') = Len(noncesToReveal) + 1
                   /\ SubSeq(noncesToReveal', 1, Len(noncesToReveal)) = noncesToReveal
                   /\ noncesToReveal'[Len(noncesToReveal')].level = c.level
                   /\ noncesToReveal'[Len(noncesToReveal')].revealed = FALSE
                   /\ store' = noncesToReveal'
              ELSE noncesToReveal' = noncesToReveal /\ store' = store
     /\ Len(noncesToReveal') > Len(noncesToReveal) => ev'.act = "injected"]_vars

\* the injection of a candidate with a seed has just succeeded and left its
\* record, for the candidate's level, last in the list and in the store
SeededInjectionWitness ==
  /\ ev.act = "injected" /\ ev.wrote
  /\ Len(store) > 0
  /\ store[Len(store)].revealed = FALSE
  /\ store[Len(store)].level \in injectedBlocks
  /\ IsCommitmentLevel(store[Len(store)].level)

\* C21: the marker sets injectedBlocks, endorsedBlocks and bakedBlocks only
\* grow, also when the head level decreases, and no step endorses, bakes or
\* injects at a level that was marked before the step.
MarkersOnlyGrow ==
  [][/\ injectedBlocks \subseteq injectedBlocks'
     /\ endorsedBlocks \subseteq endorsedBlocks'
     /\ bakedBlocks \subseteq bakedBlocks'
     /\ \A e \in LogSet(endorseLog' (-) endorseLog) :
          /\ e.h.level \notin endorsedBlocks
          /\ CopiesIn(e, endorseLog' (-) endorseLog) = 1
     /\ \A e \in LogSet(bakeLog' (-) bakeLog) :
          /\ (e.h.level + 1) \notin bakedBlocks
          /\ CopiesIn(e, bakeLog' (-) bakeLog) = 1
     /\ \A e \in LogSet(injectLog' (-) injectLog) :
          /\ e.cand.level \notin injectedBlocks
          /\ CopiesIn(e, injectLog' (-) injectLog) = 1
          /\ \A f \in LogSet(injectLog' (-) injectLog) :
               f.cand.level = e.cand.level => f = e]_vars

\* getHead() has just answered a head below a level endorsed earlier, at a
\* level that is itself endorsed already and whose next level is already
\* baked and injected, and the step sent no rights query
RollbackWitness ==
  /\ ev.act = "head"
  /\ \E l \in endorsedBlocks : l > head.level
  /\ startLevel <= head.level
  /\ head.level \in endorsedBlocks
  /\ (head.level + 1) \in bakedBlocks
  /\ (head.level + 1) \in injectedBlocks
  /\ step.sent = <<>>

\* the requests of one kind among those a step sent
SentOf(req) == {i \in DOMAIN step.sent : step.sent[i] = req}

\* C23: at most one getHead() request is in flight; a tick that starts while
\* one is in flight drains the injector but sends no getHead(), starts no
\* reveal, no rights query, no endorsement and no bake, and leaves head and
\* startLevel unchanged.
FetchLock ==
  [][/\ fetching' <= 1
     /\ (ev'.act = "tick" /\ fetching > 0) =>
          /\ \A i \in DOMAIN step'.sent : step'.sent[i] = "inject"
          /\ \A i \in DOMAIN pendingBlocks' :
               /\ ~StaleBlock(pendingBlocks'[i])
               /\ pendingBlocks'[i].level \notin injectedBlocks
               /\ ~DueBlock(pendingBlocks'[i])
          /\ \A i \in DOMAIN pendingBlocks :
               (/\ ~StaleBlock(pendingBlocks[i])
                /\ pendingBlocks[i].level \notin injectedBlocks
                /\ DueBlock(pendingBlocks[i]))
                 => pendingBlocks[i].level \in injectedBlocks'
          /\ UNCHANGED << head, startLevel, fetching, revealing, revealLog,
                          noncesToReveal, store, endorseQ, bakeQ, endorseLog,
                          bakeLog, baking, endorsedBlocks, bakedBlocks >>]_vars

\* a tick has just run while a getHead() request was in flight: it sent an
\* injection request and no getHead()
LockedTickWitness ==
  /\ ev.act = "tick"
  /\ fetching = 1
  /\ SentOf("getHead") = {}
  /\ SentOf("inject") # {}
  /\ pendingBlocks = <<>>

\* the place of a request in the order of a tick
Rank(req) ==
  CASE req = "inject" -> 1
    [] req = "getHead" -> 2
    [] req = "reveal" -> 3
    [] req = "endorsing_rights" -> 4
    [] req = "baking_rights" -> 5
    [] OTHER -> 6

\* the nonces of list that are due at level H, counted without dueNonces
DueCount(list, H) ==
  Cardinality({i \in DOMAIN list :
                 /\ list[i].revealed = FALSE
                 /\ H >= cycleToLevelStart(levelToCycle(list[i].level) + 1)})

\* C24: within one tick the requests are sent in the order injections (decided
\* against the head of the previous tick), getHead(), and after its answer
\* the reveals, the endorsing_rights query for head.level and the
\* baking_rights query for head.level + 1; the reveals are sent also in a
\* tick that the stand-down guard stops, which sends no rights query.
StepOrder ==
  [][/\ ev'.act \in {"tick", "head"} =>
          \A i, j \in DOMAIN step'.sent :
            i < j => Rank(step'.sent[i]) <= Rank(step'.sent[j])
     /\ ev'.act = "tick" =>
          /\ \A i \in DOMAIN step'.sent : step'.sent[i] \in {"inject", "getHead"}
          /\ \A e \in LogSet(injectLog' (-) injectLog) :
               e.headLevel = head.level /\ e.cand.level > head.level
          /\ fetching' - fetching =
               Cardinality({i \in DOMAIN step'.sent : step'.sent[i] = "getHead"})
     /\ ev'.act = "head" =>
          /\ fetching' = fetching - 1
          /\ \A i \in DOMAIN step'.sent :
               step'.sent[i] \in {"reveal", "endorsing_rights", "baking_rights"}
          /\ Cardinality({i \in DOMAIN step'.sent : step'.sent[i] = "reveal"})
               = DueCount(noncesToReveal, head'.level)
          /\ IF startLevel' > head'.level
               THEN /\ endorseQ' = endorseQ /\ bakeQ' = bakeQ
                    /\ \A i \in DOMAIN step'.sent : step'.sent[i] = "reveal"
               ELSE /\ endorseQ' = IF head'.level \in endorsedBlocks THEN endorseQ
                                   ELSE endorseQ (+) Bag1(head')
                    /\ bakeQ' = IF (head'.level + 1) \in bakedBlocks THEN bakeQ
                                ELSE bakeQ (+) Bag1(head')
                    /\ (head'.level \in endorsedBlocks) <=>
                         (\A i \in DOMAIN step'.sent :
                            step'.sent[i] # "endorsing_rights")
                    /\ ((head'.level + 1) \in bakedBlocks) <=>
                         (\A i \in DOMAIN step'.sent :
                            step'.sent[i] # "baking_rights")]_vars

\* the answer of getHead() has just started a reveal and both rights queries,
\* in that order, in a run whose first tick, stopped by the stand-down guard,
\* revealed a nonce too
FullTickWitness ==
  /\ ev.act = "head"
  /\ step.sent = <<"reveal", "endorsing_rights", "baking_rights">>
  /\ \E r \in LogSet(revealLog) : r.H = firstLevel /\ startLevel > r.H

\* C25: whenever an injection request, an endorsement or a bake has been
\* started for a level, in flight or ended, by success or by failure, the
\* level is in injectedBlocks, endorsedBlocks or bakedBlocks: the marker is
\* set in the step that sends the first request and is not removed later.
MarkedBeforeSent ==
  /\ \A c \in BagToSet(injecting) : c.level \in injectedBlocks
  /\ \A e \in LogSet(injectLog) : e.cand.level \in injectedBlocks
  /\ \A e \in LogSet(endorseLog) : e.h.level \in endorsedBlocks
  /\ \A b \in baking : (b.head.level + 1) \in bakedBlocks
  /\ \A e \in LogSet(bakeLog) : (e.h.level + 1) \in bakedBlocks

\* the only injection request of the run has just failed, the bake that made
\* its candidate has ended, and the levels are still marked
FailedStillMarkedWitness ==
  /\ ev.act = "failed"
  /\ injecting = EmptyBag
  /\ baking = {}
  /\ \E e \in LogSet(injectLog) :
       /\ e.cand.level \in injectedBlocks
       /\ e.cand.level \in bakedBlocks

\* C26: a tick that sends the injection request of a candidate removes the
\* candidate from pendingBlocks and sends it for a level no injection was
\* sent for before; the step in which the request fails sends nothing,
\* puts nothing back in pendingBlocks and leaves the nonce list and the
\* store as they were.
FailedInjectionDropped ==
  [][/\ ev'.act = "tick" =>
          \A e \in LogSet(injectLog' (-) injectLog) :
            /\ e.cand \notin SeqToSet(pendingBlocks')
            /\ \A old \in LogSet(injectLog) : old.cand.level # e.cand.level
     /\ ev'.act = "failed" =>
          /\ step'.sent = <<>>
          /\ UNCHANGED << pendingBlocks, injectedBlocks, injectLog,
                          noncesToReveal, store >>]_vars

\* a tick has run after the injection of a candidate with a seed failed: it
\* sent no injection, nothing is pending and no nonce was stored
NotRetriedWitness ==
  /\ ev.act = "tick"
  /\ SentOf("inject") = {}
  /\ injecting = EmptyBag
  /\ pendingBlocks = <<>>
  /\ store = <<>>
  /\ \E e \in LogSet(injectLog) : e.cand.seed /\ e.cand.level > head.level

\* the candidates of list an injector pass must keep: those whose timestamp
\* is still ahead, for a level above the head for which nothing was injected
StillAhead(list) ==
  SelectSeq(list, LAMBDA c : /\ c.timestamp > now
                             /\ c.level > head.level
                             /\ c.level \notin injectedBlocks)

\* C27: an injector pass sends the injection request of a candidate only when
\* now >= its timestamp, and leaves in pendingBlocks, unchanged and in order,
\* exactly the candidates whose timestamp is ahead of now, whose level is
\* above head.level and not in injectedBlocks.
InjectOnlyWhenDue ==
  [][ev'.act = "tick" =>
       /\ \A e \in LogSet(injectLog' (-) injectLog) : now >= e.cand.timestamp
       /\ pendingBlocks' = StillAhead(pendingBlocks)]_vars

\* an injector pass has just kept a candidate whose timestamp is ahead of the
\* clock, for a level above the head that is not marked injected
KeptForLaterWitness ==
  /\ ev.act = "tick"
  /\ \E i \in DOMAIN pendingBlocks :
       /\ pendingBlocks[i].timestamp > now
       /\ pendingBlocks[i].level > head.level
       /\ pendingBlocks[i].level \notin injectedBlocks

\* C28: bake is called for the level above a head only in the step that
\* receives a baking_rights answer whose first right is for that level with
\* now >= its estimated_time, for a head of the current level and a level not
\* in bakedBlocks; an answer whose right is not yet due marks no level and
\* starts nothing, and the next head answer at that level sends the query
\* again.
BakeStartConditions ==
  [][/\ \A e \in LogSet(bakeLog' (-) bakeLog) :
          /\ step'.rights.kind = "right"
          /\ step'.rights.level = e.h.level + 1
          /\ now >= step'.rights.estimated_time
          /\ e.h.level = head.level
          /\ (e.h.level + 1) \notin bakedBlocks
          /\ (e.h.level + 1) \in bakedBlocks'
     /\ (step'.rights.kind = "right" /\ now < step'.rights.estimated_time) =>
          UNCHANGED << bakedBlocks, bakeLog, baking >>
     /\ (/\ ev'.act = "head"
         /\ startLevel' <= head'.level
         /\ (head'.level + 1) \notin bakedBlocks) =>
          \E i \in DOMAIN step'.sent : step'.sent[i] = "baking_rights"]_vars

\* a baking_rights answer for the level above the current head has just
\* named a right whose estimated_time is ahead of the clock: the level is not
\* marked and no bake runs
NotYetDueWitness ==
  /\ step.rights.kind = "right"
  /\ step.rights.level = head.level + 1
  /\ step.rights.estimated_time > now
  /\ startLevel <= head.level
  /\ (head.level + 1) \notin bakedBlocks
  /\ baking = {}
  /\ bakeLog = EmptyBag

\* C29: an empty baking_rights answer for the level above the current head
\* puts that level in bakedBlocks without starting a bake; no head answer
\* sends a baking_rights query for a level in bakedBlocks, and no step starts
\* a bake for one, whatever the head's hash and the rights answered.
NothingToBakeIsFinal ==
  [][/\ (step'.rights.kind = "none" /\ ev'.act # "race") =>
          /\ bakedBlocks' = bakedBlocks \cup {head.level + 1}
          /\ UNCHANGED << bakeLog, baking >>
     /\ (ev'.act = "head" /\ (head'.level + 1) \in bakedBlocks) =>
          /\ \A i \in DOMAIN step'.sent : step'.sent[i] # "baking_rights"
          /\ bakeQ' = bakeQ
     /\ \A e \in LogSet(bakeLog' (-) bakeLog) : (e.h.level + 1) \notin bakedBlocks
     /\ \A l \in bakedBlocks : l \in bakedBlocks']_vars

\* the head has just changed to another block of a level that was endorsed,
\* and whose next level, for which no bake ever started, is in bakedBlocks:
\* no baking_rights query is sent
NothingToBakeWitness ==
  /\ ev.act = "head"
  /\ startLevel <= head.level
  /\ (head.level + 1) \in bakedBlocks
  /\ bakeLog = EmptyBag
  /\ bakeQ = EmptyBag
  /\ SentOf("baking_rights") = {}
  /\ \E e \in LogSet(endorseLog) : e.h.level = head.level /\ e.h.hash # head.hash

\* the buffer made of the bytes written as hex, followed by 64 zero bytes
Padded(hex) ==
  [k \in 1 .. (Len(hex) \div 2 + 64) |->
     IF k <= Len(hex) \div 2 THEN 16 * hex[2 * k - 1] + hex[2 * k] ELSE 0]

\* the digest, read as a big-endian number of 8 bytes, is at most 2^46 - 1
BelowThreshold(d) == d[1] = 0 /\ d[2] = 0 /\ d[3] < 64

\* C22: powLoop calls its callback at most once per search, with the number
\* of the attempt and with header bytes such that the buffer hashed in that
\* attempt is those bytes followed by 64 zero bytes and its digest, read as
\* a big-endian number, is <= threshold; the bytes are as long as the forged
\* header and the protocol data together.
StampCorrect ==
  /\ Len(pow.calls) <= 1
  /\ \A i \in DOMAIN pow.calls :
       /\ BelowThreshold(pow.calls[i].digest)
       /\ pow.calls[i].hashed = Padded(pow.calls[i].hex)
       /\ Len(pow.calls[i].hex) =
            Len(pow.forged) + 4 + 8 + 8 + (IF pow.seedHex = <<>> THEN 2 ELSE 66)
       /\ pow.calls[i].att = pow.att
       /\ pow.pc = "found"

\* a search has ended after the counter carried into its third byte, on a
\* digest equal to the threshold
StampFoundWitness ==
  /\ Len(pow.calls) = 1
  /\ pow.calls[1].att > 256
  /\ pow.calls[1].digest = <<0, 0, 63, 255, 255, 255, 255, 255>>
  /\ pow.seedHex # <<>>

\* a bake started from head h is running
Baking(h) == \E b \in baking : b.head = h

\* C30: every bake that starts ends, by a candidate or by a failure, whatever
\* the node answers.
BakeTerminates == \A h \in LowHeads : Baking(h) ~> ~Baking(h)

\* a bake was started for level l, none runs for it and none left a candidate
BakeFailed(l) ==
  /\ \E e \in LogSet(bakeLog) : e.h.level + 1 = l
  /\ \A b \in baking : b.head.level + 1 # l
  /\ \A q \in enqueueLog : q.cand.level # l

\* C31: a first preapply that fails for a reason other than endorsements is
\* followed by one preapply of the header with no operations; the answer of
\* that second preapply sends no further preapply, and its failure ends the
\* bake with nothing enqueued and the level still in bakedBlocks; a level
\* whose bake has failed never gets a bake or a candidate afterwards.
SecondPreapplyIsLast ==
  [][/\ \A b \in baking :
          /\ (b.pc = "preapply" /\ b \notin baking') =>
               \E c \in baking' :
                 /\ c.head = b.head
                 /\ \/ c.pc \in {"forge", "mempool"}
                    \/ /\ c.pc = "preapply2"
                       /\ c.operations = NoOperations
                       /\ step'.sent = <<"preapply">>
          /\ (b.pc = "preapply2" /\ b \notin baking') =>
               /\ \A i \in DOMAIN step'.sent : step'.sent[i] # "preapply"
               /\ \A c \in baking' : c.head = b.head => c.pc = "forge"
               /\ UNCHANGED << pendingBlocks, enqueueLog, bakedBlocks >>
               /\ (b.head.level + 1) \in bakedBlocks'
     /\ \A l \in Levels : BakeFailed(l) => BakeFailed(l)' /\ l \in bakedBlocks']_vars

\* the bake of the level above the head failed at its second preapply; a
\* head answer at the same level has just sent no baking_rights query
SecondPreapplyFailedWitness ==
  /\ ev.act = "head"
  /\ startLevel <= head.level
  /\ BakeFailed(head.level + 1)
  /\ SentOf("baking_rights") = {}
  /\ pendingBlocks = <<>>
  /\ (head.level + 1) \notin injectedBlocks

\* the identities of the nonces a list holds
IdsOf(list) == {list[i].id : i \in DOMAIN list}

\* C32: a nonce whose reveal is running is in neither the outstanding list
\* nor the store; the step that ends its pipeline, by success or by the
\* failure of any stage, leaves it revealed = TRUE, puts it back nowhere and
\* sends no request; and reveal is never called for a nonce it was called
\* for before.
RevealNeverRetried ==
  [][/\ \A n \in revealing :
          /\ n.id \notin IdsOf(noncesToReveal) \cup IdsOf(store)
          /\ n \notin revealing' =>
               /\ step'.done.id = n.id
               /\ step'.done.revealed = TRUE
               /\ step'.sent = <<>>
               /\ n.id \notin IdsOf(noncesToReveal') \cup IdsOf(store')
               /\ noncesToReveal' = noncesToReveal /\ store' = store
     /\ \A e \in LogSet(revealLog' (-) revealLog) :
          /\ \A old \in LogSet(revealLog) : old.nonce.id # e.nonce.id
          /\ CopiesIn(e, revealLog' (-) revealLog) = 1]_vars

\* the reveal of a nonce has just ended by the rejection of its preapply; a
\* head answer after its reveal started found it neither in the list nor
\* in the store
RevealFailedWitness ==
  /\ step.done.outcome = "preapply"
  /\ step.done.revealed
  /\ step.done.id \notin IdsOf(noncesToReveal) \cup IdsOf(store)
  /\ \E e \in LogSet(revealLog) : e.nonce.id = step.done.id /\ e.H < head.level

\* C33: at every moment, so after load, after every addNonce and after every
\* reveal pass, the list read from the store is the list noncesToReveal,
\* record for record in the same order, and a store object whose field was
\* never set reads as the empty list.
StoreIsNonceList ==
  /\ store = noncesToReveal
  /\ bknonces(Uninitialized) = <<>>

\* a reveal pass has just taken a nonce added by an accepted injection out
\* of a list that still holds a loaded nonce
StoreFollowsWitness ==
  /\ ev.act = "head" /\ ev.wrote
  /\ \E e \in LogSet(revealLog) : e.nonce.id > 0 /\ e.H = head.level
  /\ \E i \in DOMAIN store : store[i].id < 0
  /\ store = noncesToReveal

\* the four bytes of buf after the first off bytes
CounterOf(buf, off) == SubSeq(buf, off + 1, off + 4)

\* the number n < 2^24 as a big-endian integer of four bytes
BigEndian(n) == <<0, (n \div 65536) % 256, (n \div 256) % 256, n % 256>>

\* C34: whenever a buffer is hashed, the four bytes after the forged header,
\* the priority (2 bytes) and the stamp header (4 bytes) hold the number of
\* the attempt as a big-endian integer, which is never 0; an attempt changes
\* no byte outside these four; and the increment carries from the last byte
\* up to the first and wraps from 2^32 - 1 to 0.
StampCounter ==
  [][pow'.pc = "hash" =>
       LET off == (Len(pow.forged) \div 2) + 2 + 4
       IN /\ pow'.att = pow.att + 1
          /\ pow'.att >= 1
          /\ CounterOf(pow'.hashBuffer, off) = BigEndian(pow'.att)
          /\ pow.pc # "start" =>
                /\ Len(pow'.hashBuffer) = Len(pow.hashBuffer)
                /\ \A k \in DOMAIN pow.hashBuffer :
                     (k <= off \/ k > off + 4) =>
                        pow'.hashBuffer[k] = pow.hashBuffer[k]
          /\ increment(<<7, 255, 255, 255, 255, 9>>, 1, 3) = <<7, 0, 0, 0, 0, 9>>
          /\ increment(<<7, 0, 255, 255, 255, 9>>, 1, 3) = <<7, 1, 0, 0, 0, 9>>]_vars

\* the buffer of the 256th attempt is being hashed: the counter has carried
\* into its third byte, and the bytes before it are those of the header
StampCarryWitness ==
  /\ pow.pc = "hash"
  /\ pow.att = 256
  /\ pow.forged = <<10, 11, 12, 13>>
  /\ CounterOf(pow.hashBuffer, 8) = <<0, 0, 1, 0>>
  /\ SubSeq(pow.hashBuffer, 1, 2) = <<171, 205>>

\* C35: an attempt that fails is followed at once by the next one while
\* fewer than 2000 attempts ran since the search started or was last
\* resumed, and the 2000th hands the next attempt to setImmediate; the timer
\* callback runs only between batches or after the search; the attempt
\* count goes up by one with every attempt, over all batches, and is the one
\* the callback is given.
CooperativeSearch ==
  [][/\ (pow.pc = "hash" /\ pow' # pow /\ pow'.pc # "found") =>
          /\ pow.syncAtt \in 1 .. 2000
          /\ pow.syncAtt < 2000 =>
                pow'.pc = "hash" /\ pow'.syncAtt = pow.syncAtt + 1
          /\ pow.syncAtt = 2000 =>
                pow'.pc = "immediate" /\ pow'.att = pow.att
          /\ pow.att % 2000 = pow.syncAtt % 2000
     /\ pow.pc = "immediate" /\ pow' # pow =>
          pow'.pc = "hash" /\ pow'.syncAtt = 1 /\ pow'.att = pow.att + 1
     /\ ev'.act = "tick" => pow.pc # "hash" /\ pow' = pow
     /\ pow'.pc = "found" /\ pow.pc = "hash" =>
          pow'.calls = <<[hex |-> pow'.calls[1].hex, att |-> pow.att,
                          hashed |-> pow.hashBuffer,
                          digest |-> pow'.calls[1].digest]>>]_vars

\* a stamp was found in the second batch, at the 2001st attempt, after a
\* tick that ran between the batches started a head query
SecondBatchWitness ==
  /\ pow.pc = "found"
  /\ pow.calls[1].att = 2001
  /\ pow.syncAtt = 1
  /\ fetching = 1 /\ lockBaker

\* C36: run calls bake at most once for a level, whatever the hashes of the
\* heads and however many baking_rights queries for the level are in flight
\* together; no two bakes run for one level and no two candidates of
\* pendingBlocks have the same level.
OneBakePerLevel ==
  /\ \A e1, e2 \in LogSet(bakeLog) : e1.h.level = e2.h.level => e1 = e2
  /\ \A e \in LogSet(bakeLog) : CopiesIn(e, bakeLog) = 1
  /\ \A b1, b2 \in baking : b1.head.level = b2.head.level => b1 = b2
  /\ \A i, j \in DOMAIN pendingBlocks :
       pendingBlocks[i].level = pendingBlocks[j].level => i = j

\* the candidate of a level is in pendingBlocks while a baking_rights query
\* for the same level, sent before its bake started, is still in flight
RacingRightsWitness ==
  \E h \in BagToSet(bakeQ) :
    /\ \E e \in LogSet(bakeLog) : e.h.level = h.level
    /\ \E i \in DOMAIN pendingBlocks : pendingBlocks[i].level = h.level + 1
    /\ (h.level + 1) \in bakedBlocks

\* the candidates a bake from a head of LowHeads can leave
ClockCandidates ==
  {[level |-> h.level + 1, timestamp |-> t, seed |-> IsCommitmentLevel(h.level + 1)] :
     h \in LowHeads, t \in Times}

\* candidate c is in pendingBlocks
Pending(c) == \E i \in DOMAIN pendingBlocks : pendingBlocks[i] = c

\* C37: a tick at which now >= the timestamp of a candidate of pendingBlocks
\* takes it out of the queue, submitting it for injection or, when its level
\* is <= head.level or already injected, discarding it; and if the clock
\* ends up past every timestamp while ticks keep running, every candidate
\* that is in the queue eventually leaves it.
CandidatesLeave ==
  /\ [][ev'.act = "tick" =>
          \A c \in SeqToSet(pendingBlocks) :
            now >= c.timestamp =>
              /\ ~Pending(c)'
              /\ \/ /\ [cand |-> c, headLevel |-> head.level] \in
                         LogSet(injectLog' (-) injectLog)
                      /\ c.level > head.level
                      /\ c.level \notin injectedBlocks
                      /\ c.level \in injectedBlocks'
                 \/ /\ [cand |-> c, headLevel |-> head.level] \in discardLog'
                      /\ (c.level <= head.level \/ c.level \in injectedBlocks)
                      /\ \A e \in LogSet(injectLog' (-) injectLog) : e.cand # c]_vars
  /\ \A c \in ClockCandidates :
       (<>[](now = MaxTime)) => (Pending(c) ~> ~Pending(c))

\* a tick has just submitted a candidate whose timestamp is the present,
\* at a head answered when the clock was still behind it, and emptied the
\* queue
WaitedAndSentWitness ==
  /\ ev.act = "tick"
  /\ now = MaxTime
  /\ pendingBlocks = <<>>
  /\ \E e \in LogSet(injectLog) :
       /\ e.cand.timestamp = MaxTime
       /\ e.headLevel = head.level
       /\ BagIn(e.cand, injecting)
  /\ SentOf("inject") # {}

\* something the agent started is still running
InFlight ==
  \/ fetching > 0
  \/ endorseQ # EmptyBag
  \/ bakeQ # EmptyBag
  \/ baking # {}
  \/ injecting # EmptyBag
  \/ revealing # {}

\* C38: whatever the calls of start() and stop(), at most one timer is
\* active, and it is the one of bakeIntervalId; stop() leaves none; a tick
\* starts only while a timer is active; and start() and stop() change no
\* field of the agent and nothing that is in flight.
OneTimer ==
  /\ [][/\ Cardinality(timers') <= 1
        /\ timers' = IF bakeIntervalId' = 0 THEN {} ELSE {bakeIntervalId'}
        /\ ev'.act = "stop" => timers' = {} /\ bakeIntervalId' = 0
        /\ ev'.act = "start" => timers' = {issued'} /\ issued' = issued + 1
        /\ ev'.act = "tick" => timers # {} /\ bakeIntervalId # 0
        /\ ev'.act \in {"start", "stop"} =>
             UNCHANGED << fields, flight, logs >>]_vars

\* start() was called twice and no timer is active; the injection that was
\* in flight when stop() was called has just been answered, and nothing
\* else is left in flight
CompletedAfterStopWitness ==
  /\ issued = MaxStarts
  /\ bakeIntervalId = 0 /\ timers = {}
  /\ ~InFlight
  /\ ev.act = "injected"
  /\ revealLog # EmptyBag
  /\ injectedBlocks # {}

\* the commitment offset of an agent constructed with the preset of net
PresetOffset(net) == IF net = "zeronet" THEN 1 ELSE 0

\* C39: for an agent constructed with the zeronet preset, a candidate for
\* level l carries a seed and its hash iff l mod 32 = 1, the commitment
\* offset of that preset.
CommitmentPredicate ==
  \A q \in enqueueLog :
    q.cand.seed <=> (q.cand.level % getConstants("zeronet").commitment
                       = PresetOffset("zeronet"))

\* C40: for every preset and every nonce level l >= 1, the reveal window
\* starts after l, is cycleLength levels long, and is the cycle after the
\* one that holds l: with c the number of whole cycles before l, it runs
\* from (c + 1) * cycleLength + 1 to (c + 2) * cycleLength; for cycleLength
\* 4096 and l = 4128 it is 8193..12288.
RevealWindowIsNextCycle ==
  (res.done /\ arg.fn = "window") =>
    LET K == IF arg.net = "mainnet" THEN 4096
             ELSE IF arg.net = "zeronet" THEN 128 ELSE 2048
        l == arg.level
    IN /\ res.start > l
       /\ res.end - res.start + 1 = K
       /\ \E c \in 0 .. MaxNonceLevel :
            /\ c * K < l /\ l <= (c + 1) * K
            /\ res.start = (c + 1) * K + 1
            /\ res.end = (c + 2) * K
       /\ (K = 4096 /\ l = 4128) => res.start = 8193 /\ res.end = 12288

\* the window of the last level of a cycle of the main network has been
\* computed: it starts on the next level
WindowWitness ==
  /\ res.done /\ arg.fn = "window"
  /\ arg.net = "mainnet" /\ arg.level = 2 * 4096
  /\ res.start = arg.level + 1
  /\ res.end = 3 * 4096
====
